---- MODULE Spec2Model ----
(***************************************************************************)
(* State-machine model of the content optimizer's core:                    *)
(*   - processConcurrently, the bounded-concurrency runner                 *)
(*   - callAiWithRetry, the AI invocation gateway                          *)
(*   - generateContent with itemsReducer and the stop / save handlers      *)
(*   - fetchWithProxies and fetchWordPressWithRetry                        *)
(*   - ContentCache                                                        *)
(*   - enforceWordCount, the word-count gate                               *)
(*   - validateAndRepairInternalLinks, the link repair pass                *)
(*   - enforceInternalLinkQuota, the link quota pass                       *)
(*   - extractJson                                                         *)
(*   - enforceUniqueVideoEmbeds, the duplicate video pass                  *)
(*   - publishItem and the bulk publishing handler                         *)
(*   - Stage 3 of generateContent, the order of the parts of the body      *)
(*   - callAI, the fallback over openrouterModels                          *)
(*   - generateContent calls side by side                                  *)
(* Each component has its own variables and its own specification; while   *)
(* one component runs, the variables of the others keep their idle value.  *)
(***************************************************************************)
EXTENDS Integers, Sequences, FiniteSets, TLC

VARIABLES
    \* ---- processConcurrently ----
    rItems,        \* the items argument
    rConc,         \* the concurrency argument
    rQueue,        \* const queue = [...items]
    rCompleted,    \* let completed
    rPc,           \* position of each worker (each call of run)
    rCur,          \* the processor invocation each worker awaits (index in rStarted)
    rStarted,      \* history: the items processor was invoked on, in order
    rInv,          \* state of each processor invocation's promise
    rProgress,     \* history: the (completed, total) pairs given to onProgress
    rStop,         \* what shouldStop() returns now
    rPulled,       \* history: number of queue.shift() calls
    rPulledAtStop, \* history: rPulled when shouldStop() last turned true
    rStopSeen,     \* history: some call of shouldStop() returned true
    \* ---- callAiWithRetry ----
    gMaxRetries,   \* the maxRetries argument
    gPc,           \* position in callAiWithRetry
    gAttempt,      \* let attempt
    gLastErr,      \* the error caught by the last catch
    gResult,       \* how the promise of callAiWithRetry settled
    gDelay,        \* let delay, of the last sleep
    gNow,          \* the clock, in ms
    gFailAt,       \* history: the clock at the last rejection of apiCall
    gCalls,        \* history: number of apiCall() invocations
    gSleeps,       \* history: number of setTimeout sleeps started
    gFails,        \* history: number of rejections of apiCall
    \* ---- App: items reducer, generateContent and its handlers ----
    pItems,        \* the items state of useReducer(itemsReducer)
    pStopped,      \* stopGenerationRef.current
    pIsGenerating, \* the isGenerating state
    pReview,       \* selectedItemForReview (the item of the open review modal)
    pCfg,          \* which provider keys are valid: serper, openai, gemini
    pSerpCache,    \* items whose `serp-<title>` entry is in apiCache
    pSkCache,      \* items whose `sk-<title>` entry is in apiCache
    pBatch,        \* itemsToGenerate of the running generateContent call
    pIdx,          \* position of the for-of loop in itemsToGenerate
    pPc,           \* position of generateContent
    pOutline,      \* metaAndOutline of the current item
    pI,            \* the counter of the current inner loop
    pBreak,        \* the outer loop was left by a break
    pGenCount,     \* let generatedCount
    pProgress,     \* the generationProgress state
    pDetected,     \* history: the item whose stop flag the current run found set
    pLateCall,     \* history: a provider call issued for an item with its stop flag set
    pCall,         \* history: the last provider call issued for the current item
    pContent,      \* processedContent of the current item
    pCompleted,    \* history: items whose last run passed all four stages
    pFailed,       \* history: items whose last run failed a gate or threw
    pRuns,         \* the number of generateContent calls so far
    \* ---- fetchWithProxies / fetchWordPressWithRetry ----
    fFn,           \* the function that was called
    fAuth,         \* options.headers['Authorization'] is set
    fKey,          \* options.headers['X-API-KEY'] is set
    fPc,           \* position: a request in flight, or settled
    fTry,          \* the strategy of the request in flight: 0 direct, i relay i
    fLog,          \* history: the requests that came back, in order
    fResult,       \* the promise the function returned
    \* ---- ContentCache ----
    cCache,        \* the Map: key -> {data, timestamp}, or no entry
    cNow,          \* Date.now()
    cTicks,        \* the number of clock advances so far
    cOp,           \* the last operation: set or get, its key and what get returned
    cLastSet,      \* history: per key the data and time of the most recent set
    \* ---- enforceWordCount ----
    wContent,      \* the content argument
    wType,         \* item.type of the item the content belongs to
    wPc,           \* position: before or after the call at the quality gate
    wResult,       \* what the call did: the error it threw or the value it returned
    \* ---- validateAndRepairInternalLinks ----
    lContent,      \* the content argument
    lPages,        \* the availablePages argument
    lPc,           \* position: before or after the call
    lResult,       \* the string the call returned
    \* ---- enforceInternalLinkQuota ----
    qContent,      \* the content argument
    qPages,        \* the availablePages argument
    qMin,          \* the minLinks argument
    qPc,           \* position: before or after the call
    qResult,       \* the string the call returned
    \* ---- extractJson ----
    eText,         \* the text argument
    ePc,           \* position: before or after the call
    eResult,       \* what the call returned or that it threw
    \* ---- enforceUniqueVideoEmbeds ----
    vContent,      \* the content argument
    vVideos,       \* the youtubeVideos argument
    vPc,           \* position: before or after the call
    vResult,       \* the string the call returned
    \* ---- publishItem and BulkPublishModal.handleStartPublishing ----
    uStore,        \* the App state: the item of the items collection and its page of existingPages
    uCfg,          \* wpConfig and the password are filled in
    uPublishState,  \* publishState of the item in the modal
    uPc,           \* position in the processor and in publishItem
    uImg,          \* the index of the imageDetail the loop is at
    uContent,      \* the local content: the images whose source has been replaced
    uPostId,       \* postId, 0 for null
    uLog,          \* the requests issued, in order, with their outcome
    uResult,       \* what publishItem returned
    \* ---- generateContent, Stage 3: the parts of the body ----
    aOutline,      \* metaAndOutline.outline.length
    aImages,       \* for imageDetails[0] and [1] whether it has a placeholder
    aVideos,       \* youtubeVideos.length, 0 for null too
    aStop,         \* stopGenerationRef.current has the item
    aI,            \* the loop variable i
    aPc,           \* position in Stage 3
    aParts,        \* contentParts
    \* ---- callAI with the openrouter model list ----
    oModels,       \* openrouterModels
    oFormat,       \* the responseFormat argument
    oPc,           \* position in callAI
    oCalls,        \* the models callAiWithRetry was called for, in order
    oOutcomes,     \* how each of these calls ended
    oLastError,    \* lastError: the model whose error it is, 0 for null
    oResponseText,  \* responseText
    oThrown,       \* the error callAI rejected with
    \* ---- generateContent calls side by side ----
    kStatus,       \* status of each item
    kHasContent,   \* items whose generatedContent is set
    kStopped,      \* stopGenerationRef.current
    kIsGenerating,  \* the isGenerating state
    kProgress,     \* the generationProgress state
    kRuns,         \* the generateContent calls made so far, each with its position
    kCalls,        \* number of generateContent calls made
    kStopReq,      \* per call: a stop of its current item is pending, or was deleted by a generate handler
    kLateCall,     \* a call went on to a provider call after its stop request was deleted
    kLateChange    \* a call changed its item after its stop request was deleted

rvars == <<rItems, rConc, rQueue, rCompleted, rPc, rCur, rStarted, rInv,
           rProgress, rStop, rPulled, rPulledAtStop, rStopSeen>>

gvars == <<gMaxRetries, gPc, gAttempt, gLastErr, gResult, gDelay, gNow,
           gFailAt, gCalls, gSleeps, gFails>>

pvars == <<pItems, pStopped, pIsGenerating, pReview, pCfg, pSerpCache, pSkCache,
           pBatch, pIdx, pPc, pOutline, pI, pBreak, pGenCount, pProgress,
           pDetected, pLateCall, pCall, pContent, pCompleted, pFailed, pRuns>>

fvars == <<fFn, fAuth, fKey, fPc, fTry, fLog, fResult>>

cvars == <<cCache, cNow, cTicks, cOp, cLastSet>>

wvars == <<wContent, wType, wPc, wResult>>

lvars == <<lContent, lPages, lPc, lResult>>

qvars == <<qContent, qPages, qMin, qPc, qResult>>

evars == <<eText, ePc, eResult>>

vvars == <<vContent, vVideos, vPc, vResult>>

uvars == <<uStore, uCfg, uPublishState, uPc, uImg, uContent, uPostId, uLog, uResult>>

avars == <<aOutline, aImages, aVideos, aStop, aI, aPc, aParts>>

ovars == <<oModels, oFormat, oPc, oCalls, oOutcomes, oLastError, oResponseText, oThrown>>

kvars == <<kStatus, kHasContent, kStopped, kIsGenerating, kProgress, kRuns, kCalls, kStopReq, kLateCall, kLateChange>>

vars == <<rvars, gvars, pvars, fvars, cvars, wvars, lvars, qvars, evars, vvars, uvars, avars, ovars, kvars>>

notRunner == <<gvars, pvars, fvars, cvars, wvars, lvars, qvars, evars, vvars, uvars, avars, ovars, kvars>>
notGateway == <<rvars, pvars, fvars, cvars, wvars, lvars, qvars, evars, vvars, uvars, avars, ovars, kvars>>
notPipeline == <<rvars, gvars, fvars, cvars, wvars, lvars, qvars, evars, vvars, uvars, avars, ovars, kvars>>
notFetch == <<rvars, gvars, pvars, cvars, wvars, lvars, qvars, evars, vvars, uvars, avars, ovars, kvars>>
notCache == <<rvars, gvars, pvars, fvars, wvars, lvars, qvars, evars, vvars, uvars, avars, ovars, kvars>>
notWordGate == <<rvars, gvars, pvars, fvars, cvars, lvars, qvars, evars, vvars, uvars, avars, ovars, kvars>>
notLinkRepair == <<rvars, gvars, pvars, fvars, cvars, wvars, qvars, evars, vvars, uvars, avars, ovars, kvars>>
notLinkQuota == <<rvars, gvars, pvars, fvars, cvars, wvars, lvars, evars, vvars, uvars, avars, ovars, kvars>>
notExtract == <<rvars, gvars, pvars, fvars, cvars, wvars, lvars, qvars, vvars, uvars, avars, ovars, kvars>>
notVideo == <<rvars, gvars, pvars, fvars, cvars, wvars, lvars, qvars, evars, uvars, avars, ovars, kvars>>
notPublish == <<rvars, gvars, pvars, fvars, cvars, wvars, lvars, qvars, evars, vvars, avars, ovars, kvars>>
notAssemble == <<rvars, gvars, pvars, fvars, cvars, wvars, lvars, qvars, evars, vvars, uvars, ovars, kvars>>
notFallback == <<rvars, gvars, pvars, fvars, cvars, wvars, lvars, qvars, evars, vvars, uvars, avars, kvars>>
notRuns == <<rvars, gvars, pvars, fvars, cvars, wvars, lvars, qvars, evars, vvars, uvars, avars, ovars>>

Max(a, b) == IF a >= b THEN a ELSE b

\* Sequences over S of length 0..n
SeqsUpTo(S, n) == UNION {[1..k -> S] : k \in 0..n}

(***************************************************************************)
(* processConcurrently                                                     *)
(***************************************************************************)
MaxItems == 3
MaxConc == 2

\* Item values: 0 stands for a falsy value of T (0, '', null), the others for
\* truthy ones (objects, non-empty strings).
ItemVals == {0, 1, 2}

\* JavaScript truthiness of an item, as tested by `if (item)`.
Truthy(item) == item # 0

\* Array(concurrency): the number of workers created.
WorkerCountOneMore(c) == c + 1

WorkerCount(c) == c

Workers == 1..WorkerCount(rConc)

\* The loop of run up to its next await, ignoring shouldStop.
RECURSIVE PullNoStopCheck(_, _, _)
PullNoStopCheck(q, stop, n) ==
    IF Len(q) = 0 THEN [queue |-> q, found |-> FALSE, item |-> 0, pulled |-> n]
    ELSE IF Truthy(Head(q))
         THEN [queue |-> Tail(q), found |-> TRUE, item |-> Head(q), pulled |-> n + 1]
         ELSE PullNoStopCheck(Tail(q), stop, n + 1)

\* The synchronous part of run's while loop, from the loop test up to the next
\* await of processor(item) or the end of the loop: with the queue q and
\* shouldStop() returning stop, the queue left, whether processor is invoked
\* and on which item, and how many items were shifted.
RECURSIVE Pull(_, _, _)
Pull(q, stop, n) ==
    IF Len(q) = 0 THEN [queue |-> q, found |-> FALSE, item |-> 0, pulled |-> n]
    ELSE IF stop THEN [queue |-> <<>>, found |-> FALSE, item |-> 0, pulled |-> n]
    ELSE IF Truthy(Head(q))
         THEN [queue |-> Tail(q), found |-> TRUE, item |-> Head(q), pulled |-> n + 1]
         ELSE Pull(Tail(q), stop, n + 1)

RunnerInit ==
    /\ rItems \in SeqsUpTo(ItemVals, MaxItems)
    /\ rConc \in 1..MaxConc
    /\ rQueue = rItems
    /\ rCompleted = 0
    /\ rPc = [w \in Workers |-> "unstarted"]
    /\ rCur = [w \in Workers |-> 0]
    /\ rStarted = <<>>
    /\ rInv = <<>>
    /\ rProgress = <<>>
    /\ rStop \in BOOLEAN
    /\ rPulled = 0
    /\ rPulledAtStop = 0
    /\ rStopSeen = FALSE

\* The runner when it is not the component under study: an empty call.
RunnerIdle ==
    /\ rItems = <<>> /\ rConc = 1 /\ rQueue = <<>> /\ rCompleted = 0
    /\ rPc = [w \in 1..1 |-> "done"] /\ rCur = [w \in 1..1 |-> 0]
    /\ rStarted = <<>> /\ rInv = <<>> /\ rProgress = <<>> /\ rStop = FALSE
    /\ rPulled = 0 /\ rPulledAtStop = 0 /\ rStopSeen = FALSE

\* A worker goes through its loop until it awaits processor(item) or leaves.
EnterLoop(w) ==
    LET p == Pull(rQueue, rStop, 0) IN
    /\ rQueue' = p.queue
    /\ rPulled' = rPulled + p.pulled
    /\ rStopSeen' = (rStopSeen \/ (Len(rQueue) > 0 /\ rStop))
    /\ IF p.found
       THEN /\ rStarted' = Append(rStarted, p.item)
            /\ rInv' = Append(rInv, "pending")
            /\ rCur' = [rCur EXCEPT ![w] = Len(rStarted) + 1]
            /\ rPc' = [rPc EXCEPT ![w] = "await"]
       ELSE /\ rPc' = [rPc EXCEPT ![w] = "done"]
            /\ UNCHANGED <<rStarted, rInv, rCur>>

\* workers = Array(concurrency).fill(null).map(run): map calls run for each
\* worker in turn, each running synchronously up to its first await.
StartWorker(w) ==
    /\ rPc[w] = "unstarted"
    /\ \A v \in Workers : v < w => rPc[v] # "unstarted"
    /\ EnterLoop(w)
    /\ UNCHANGED <<rItems, rConc, rCompleted, rProgress, rStop, rPulledAtStop>>

\* The promise of a processor invocation settles.
ProcessorSettles(i, how) ==
    /\ i \in 1..Len(rInv)
    /\ rInv[i] = "pending"
    /\ rInv' = [rInv EXCEPT ![i] = how]
    /\ UNCHANGED <<rItems, rConc, rQueue, rCompleted, rPc, rCur, rStarted,
                   rProgress, rStop, rPulled, rPulledAtStop, rStopSeen>>

\* The worker continues after `await processor(item)` resolved: completed++,
\* onProgress, and the loop again.
WorkerResumes(w) ==
    /\ rPc[w] = "await"
    /\ \A v \in Workers : rPc[v] # "unstarted"
    /\ rInv[rCur[w]] = "resolved"
    /\ rCompleted' = rCompleted + 1
    /\ rProgress' = Append(rProgress, <<rCompleted + 1, Len(rItems)>>)
    /\ EnterLoop(w)
    /\ UNCHANGED <<rItems, rConc, rStop, rPulledAtStop>>

\* `await processor(item)` throws: run rejects, the worker is gone.
WorkerFails(w) ==
    /\ rPc[w] = "await"
    /\ \A v \in Workers : rPc[v] # "unstarted"
    /\ rInv[rCur[w]] = "rejected"
    /\ rPc' = [rPc EXCEPT ![w] = "failed"]
    /\ UNCHANGED <<rItems, rConc, rQueue, rCompleted, rCur, rStarted, rInv,
                   rProgress, rStop, rPulled, rPulledAtStop, rStopSeen>>

\* The caller's stop condition changes.
StopChanges ==
    /\ rStop' = ~rStop
    /\ rPulledAtStop' = IF rStop' THEN rPulled ELSE rPulledAtStop
    /\ UNCHANGED <<rItems, rConc, rQueue, rCompleted, rPc, rCur, rStarted,
                   rInv, rProgress, rPulled, rStopSeen>>

\* await Promise.all(workers)
RunnerResolved == \A w \in Workers : rPc[w] = "done"
RunnerRejected == \E w \in Workers : rPc[w] = "failed"

RunnerNext ==
    \/ \E w \in Workers : StartWorker(w) /\ UNCHANGED notRunner
    \/ \E i \in 1..MaxItems + 1, how \in {"resolved", "rejected"} :
          ProcessorSettles(i, how) /\ UNCHANGED notRunner
    \/ \E w \in Workers : WorkerResumes(w) /\ UNCHANGED notRunner
    \/ \E w \in Workers : WorkerFails(w) /\ UNCHANGED notRunner
    \/ StopChanges /\ UNCHANGED notRunner

\* Number of processor invocations started and not yet settled.
InFlight == Cardinality({i \in 1..Len(rInv) : rInv[i] = "pending"})

\* C1: at no time are more than `concurrency` processor invocations started
\* and not yet settled.
C1_ConcurrencyBound == InFlight <= rConc

\* C1 witness: the bound is reached with items still queued.
C1_Witness == rConc = 2 /\ InFlight = 2 /\ Len(rQueue) > 0

\* C2: while shouldStop() stays true no processor invocation starts and no
\* item is pulled, so at most the K items pulled before are ever processed;
\* a worker whose invocation was in flight still finishes it (the completion
\* is counted and reported) and then leaves with the queue emptied.
C2_StopSemantics ==
    [][(rStop /\ rStop') =>
          /\ rStarted' = rStarted
          /\ rPulled' = rPulled
          /\ rPulled = rPulledAtStop
          /\ Len(rStarted) <= rPulledAtStop
          /\ \A w \in Workers :
                (rPc[w] = "await" /\ rPc'[w] # "await") =>
                    \/ rPc'[w] = "failed" /\ rInv[rCur[w]] = "rejected"
                    \/ /\ rPc'[w] = "done"
                       /\ rInv[rCur[w]] = "resolved"
                       /\ rCompleted' = rCompleted + 1
                       /\ rProgress' = Append(rProgress, <<rCompleted + 1, Len(rItems)>>)
                       /\ rQueue' = <<>>
          /\ \A w \in Workers :
                (rPc[w] = "unstarted" /\ rPc'[w] # "unstarted") =>
                    rPc'[w] = "done" /\ rQueue' = <<>>]_vars

\* C2 witness: shouldStop() turned true after one of three items was pulled;
\* that invocation completed afterwards and the two queued items were dropped.
C2_Witness ==
    /\ rStop /\ rStopSeen
    /\ Len(rItems) = 3 /\ rPulledAtStop = 1 /\ rPulled = 1
    /\ rQueue = <<>> /\ rCompleted = 1 /\ Len(rStarted) = 1
    /\ \A w \in Workers : rPc[w] = "done"

C38_QuiescentOnSettle ==
    /\ []((RunnerResolved \/ RunnerRejected) => InFlight = 0)
    /\ [][(RunnerResolved \/ RunnerRejected) => rStarted' = rStarted]_vars

(***************************************************************************)
(* callAiWithRetry                                                         *)
(***************************************************************************)
MaxRetries == 3
CallLatencyMs == 100
InitialDelay == 5000

NaN == -999999

\* What apiCall() can reject with: error.status (0: none), error.message,
\* error.headers['retry-after'] and error.response.headers.get('retry-after')
\* ("": none).
ErrStatuses == {0, 400, 401, 429, 499, 500, 503}
ErrMessages == {"request failed", "[404 not found] no such model",
                "[429 too many requests] slow down", "maximum context length exceeded",
                "token limit reached", "api key not valid"}
HttpDate == "Wed, 21 Oct 2015 07:28:00 GMT"
RetryAfterValues == {"", "0", "2", HttpDate, "soon"}

ErrorSet ==
    {e \in [status : ErrStatuses, message : ErrMessages,
            ra1 : RetryAfterValues, ra2 : {"", "2"}] :
        e.ra2 # "" => e.ra1 = ""}

NoError == [status |-> 0, message |-> "", ra1 |-> "", ra2 |-> ""]
\* new Error("AI call failed after all retries.")
ExhaustedError == [status |-> 0, message |-> "ai call failed after all retries.",
                   ra1 |-> "", ra2 |-> ""]

Pending == [kind |-> "pending", err |-> NoError]
Resolved == [kind |-> "value", err |-> NoError]
Rejected(e) == [kind |-> "error", err |-> e]

\* errorMessage.match(/\[(\d{3})[^\]]*\]/) and parseInt of its group, 0: no match
StatusInMessage(m) ==
    CASE m = "[404 not found] no such model" -> 404
      [] m = "[429 too many requests] slow down" -> 429
      [] OTHER -> 0

\* const statusCode = error.status || (statusMatch ? parseInt(...) : null)
StatusCode(e) == IF e.status # 0 THEN e.status ELSE StatusInMessage(e.message)

IsNonRetriableClientError(e) ==
    StatusCode(e) # 0 /\ StatusCode(e) >= 400 /\ StatusCode(e) < 500 /\ StatusCode(e) # 429

IsContextLengthError(e) ==
    e.message \in {"maximum context length exceeded", "token limit reached"}

IsInvalidApiKeyError(e) == e.message = "api key not valid"

\* A classification that forgets the context-length test.
FailsFastNoContextTest(e) == IsNonRetriableClientError(e) \/ IsInvalidApiKeyError(e)

\* if (isNonRetriableClientError || isContextLengthError || isInvalidApiKeyError)
FailsFast(e) ==
    IsNonRetriableClientError(e) \/ IsContextLengthError(e) \/ IsInvalidApiKeyError(e)

\* A last-attempt test that is off by one.
IsLastAttemptOffByOne(attempt, maxRetries) == attempt = maxRetries

\* A last-attempt test that gives up one attempt early.
IsLastAttemptEarly(attempt, maxRetries) == attempt = maxRetries - 2

\* if (attempt === maxRetries - 1)
IsLastAttempt(attempt, maxRetries) == attempt = maxRetries - 1

\* error.headers?.['retry-after'] || error.response?.headers?.get('retry-after')
RetryAfterHeader(e) == IF e.ra1 # "" THEN e.ra1 ELSE e.ra2

\* parseInt(retryAfterHeader, 10)
ParseInt(h) == CASE h = "0" -> 0 [] h = "2" -> 2 [] OTHER -> NaN

\* new Date(retryAfterHeader).getTime(), on the clock of gNow
DateGetTime(h) == IF h = HttpDate THEN 7000 ELSE NaN

\* Math.pow(2, attempt)
RECURSIVE Pow2(_)
Pow2(n) == IF n <= 0 THEN 1 ELSE 2 * Pow2(n - 1)

\* Math.random() * 1000, the two ends of its range
Jitters == {0, 999}

ExponentialBackoff(attempt, jitter) == InitialDelay * Pow2(attempt) + jitter

\* A delay that ignores the Retry-After header.
DelayIgnoringRetryAfter(e, attempt, jitter, now) == ExponentialBackoff(attempt, jitter)

\* let delay, as computed after a retriable rejection e.
Delay(e, attempt, jitter, now) ==
    IF e.status = 429 \/ StatusCode(e) = 429
    THEN IF RetryAfterHeader(e) # ""
         THEN IF ParseInt(RetryAfterHeader(e)) # NaN
              THEN ParseInt(RetryAfterHeader(e)) * 1000 + 500
              ELSE IF DateGetTime(RetryAfterHeader(e)) # NaN
                   THEN DateGetTime(RetryAfterHeader(e)) - now + 500
                   ELSE ExponentialBackoff(attempt, jitter)
         ELSE ExponentialBackoff(attempt, jitter)
    ELSE ExponentialBackoff(attempt, jitter)

GatewayInit ==
    /\ gMaxRetries \in 0..MaxRetries
    /\ gPc = "loop"
    /\ gAttempt = 0
    /\ gLastErr = NoError
    /\ gResult = Pending
    /\ gDelay = 0
    /\ gNow = 0
    /\ gFailAt = 0
    /\ gCalls = 0
    /\ gSleeps = 0
    /\ gFails = 0

\* The gateway when it is not the component under study: not called.
GatewayIdle ==
    /\ gMaxRetries = 0 /\ gPc = "idle" /\ gAttempt = 0 /\ gLastErr = NoError
    /\ gResult = Pending /\ gDelay = 0 /\ gNow = 0 /\ gFailAt = 0
    /\ gCalls = 0 /\ gSleeps = 0 /\ gFails = 0

\* for (...; attempt < maxRetries; ...) { try { return await apiCall();
InvokeApiCall ==
    /\ gPc = "loop"
    /\ gAttempt < gMaxRetries
    /\ gPc' = "calling"
    /\ gCalls' = gCalls + 1
    /\ UNCHANGED <<gMaxRetries, gAttempt, gLastErr, gResult, gDelay, gNow,
                   gFailAt, gSleeps, gFails>>

\* The loop ends: throw new Error("AI call failed after all retries.")
LoopExhausted ==
    /\ gPc = "loop"
    /\ ~(gAttempt < gMaxRetries)
    /\ gPc' = "rejected"
    /\ gResult' = Rejected(ExhaustedError)
    /\ UNCHANGED <<gMaxRetries, gAttempt, gLastErr, gDelay, gNow, gFailAt,
                   gCalls, gSleeps, gFails>>

\* apiCall() resolves: return its value.
ApiCallResolves ==
    /\ gPc = "calling"
    /\ gPc' = "resolved"
    /\ gResult' = Resolved
    /\ gNow' = gNow + CallLatencyMs
    /\ UNCHANGED <<gMaxRetries, gAttempt, gLastErr, gDelay, gFailAt, gCalls,
                   gSleeps, gFails>>

\* apiCall() rejects with e: the catch block, up to its throw or its setTimeout.
ApiCallRejects(e, jitter) ==
    /\ gPc = "calling"
    /\ gNow' = gNow + CallLatencyMs
    /\ gFailAt' = gNow'
    /\ gLastErr' = e
    /\ gFails' = gFails + 1
    /\ IF FailsFast(e) \/ IsLastAttempt(gAttempt, gMaxRetries)
       THEN /\ gPc' = "rejected"
            /\ gResult' = Rejected(e)
            /\ UNCHANGED <<gDelay, gSleeps>>
       ELSE /\ gPc' = "sleeping"
            /\ gDelay' = Delay(e, gAttempt, jitter, gNow')
            /\ gSleeps' = gSleeps + 1
            /\ UNCHANGED gResult
    /\ UNCHANGED <<gMaxRetries, gAttempt, gCalls>>

\* The timer of `await new Promise(resolve => setTimeout(resolve, delay))`
\* fires (a negative delay fires at once); attempt++.
TimerFires ==
    /\ gPc = "sleeping"
    /\ gNow' = gNow + Max(gDelay, 0)
    /\ gAttempt' = gAttempt + 1
    /\ gPc' = "loop"
    /\ UNCHANGED <<gMaxRetries, gLastErr, gResult, gDelay, gFailAt, gCalls,
                   gSleeps, gFails>>

GatewayNext ==
    \/ InvokeApiCall /\ UNCHANGED notGateway
    \/ LoopExhausted /\ UNCHANGED notGateway
    \/ ApiCallResolves /\ UNCHANGED notGateway
    \/ \E e \in ErrorSet, jitter \in Jitters :
          ApiCallRejects(e, jitter) /\ UNCHANGED notGateway
    \/ TimerFires /\ UNCHANGED notGateway


\* What the gateway's contract calls a non-retriable error: a status in
\* [400,500) other than 429, or a message about the context length, the token
\* limit or an invalid API key.
ClaimedNonRetriable(e) ==
    \/ e.status \in 400..499 /\ e.status # 429
    \/ e.message \in {"maximum context length exceeded", "token limit reached"}
    \/ e.message = "api key not valid"

\* What the contract calls a retriable error: 429, 5xx or unclassified.
ClaimedRetriable(e) ==
    /\ e.message \notin {"maximum context length exceeded", "token limit reached",
                         "api key not valid"}
    /\ \/ StatusCode(e) = 429
       \/ StatusCode(e) \in 500..599
       \/ StatusCode(e) = 0

\* C4: after a rejection with a non-retriable error the gateway has rejected
\* with that same error, every invocation so far was a rejection (a first
\* rejection means exactly one invocation), and no sleep followed that
\* rejection; the state is final, so no further attempt is made.
C4_FailFast ==
    (gFails > 0 /\ ClaimedNonRetriable(gLastErr))
    => /\ gPc = "rejected"
       /\ gResult = Rejected(gLastErr)
       /\ gCalls = gFails
       /\ gSleeps = gFails - 1

\* C4 witness: a first rejection with status 401, with three attempts allowed.
C4_Witness ==
    /\ gMaxRetries = 3 /\ gPc = "rejected" /\ gLastErr.status = 401
    /\ gCalls = 1 /\ gSleeps = 0

\* C5: never more than maxRetries invocations; a sleep is always followed by
\* another attempt; when the gateway gave up on a retriable error it made
\* exactly maxRetries invocations with a sleep between consecutive ones and
\* rejected with the last error (with maxRetries = 0 there is no attempt and
\* it rejects with its own error).
C5_AttemptBound ==
    /\ gCalls <= gMaxRetries
    /\ gPc = "sleeping" => gCalls < gMaxRetries /\ gSleeps = gCalls
    /\ (gPc = "rejected" /\ gFails > 0 /\ ClaimedRetriable(gLastErr))
       => /\ gCalls = gMaxRetries
          /\ gSleeps = gMaxRetries - 1
          /\ gResult = Rejected(gLastErr)
    /\ (gPc = "rejected" /\ gFails = 0)
       => gMaxRetries = 0 /\ gCalls = 0 /\ gSleeps = 0 /\ gResult = Rejected(ExhaustedError)

\* C5 witness: three attempts, all rejected with 503, two sleeps.
C5_Witness ==
    /\ gMaxRetries = 3 /\ gPc = "rejected" /\ gLastErr.status = 503
    /\ gCalls = 3 /\ gSleeps = 2 /\ gFails = 3

\* C6: after k < maxRetries rejections with retriable errors the gateway is
\* still retrying or has resolved; when it resolved it made exactly k + 1
\* invocations, at most maxRetries, the successful one being the last.
C6_RetryThenSucceed ==
    /\ gPc = "resolved"
       => /\ gResult = Resolved
          /\ gCalls = gFails + 1
          /\ gAttempt = gFails
          /\ gCalls <= gMaxRetries
    /\ (gFails > 0 /\ gFails < gMaxRetries /\ ClaimedRetriable(gLastErr))
       => gPc \in {"sleeping", "loop", "calling", "resolved"}

\* C6 witness: two rejections with status 503, then success at the third call.
C6_Witness ==
    /\ gPc = "resolved" /\ gFails = 2 /\ gCalls = 3 /\ gLastErr.status = 503

\* The seconds a numeric Retry-After value asks for.
ClaimedSeconds(h) == IF h = "2" THEN 2 ELSE 0

\* C7: after a 429 rejection carrying a numeric Retry-After of s seconds, with
\* attempts remaining, the delay slept is s * 1000 + 500 ms (not the
\* exponential backoff), and the next attempt starts no earlier than that
\* after the failure.
C7_RetryAfter ==
    (/\ gFails > 0
     /\ StatusCode(gLastErr) = 429
     /\ RetryAfterHeader(gLastErr) \in {"0", "2"})
    => LET wait == ClaimedSeconds(RetryAfterHeader(gLastErr)) * 1000 + 500 IN
       /\ gPc = "sleeping" => gDelay = wait
       /\ gPc \in {"loop", "calling", "resolved"} => gNow - gFailAt >= wait

\* C7 witness: the second attempt starts 2500 ms after a 429 with Retry-After: 2.
C7_Witness ==
    /\ gPc = "calling" /\ gFails = 1 /\ gCalls = 2
    /\ gLastErr.status = 429 /\ RetryAfterHeader(gLastErr) = "2"
    /\ gNow - gFailAt = 2500

(***************************************************************************)
(* fetchWithProxies and fetchWordPressWithRetry: a direct request, then the *)
(* relays in list order, one request at a time.                            *)
(***************************************************************************)
FetchFns == {"fetchWithProxies", "fetchWordPressWithRetry"}

\* What a request can come back with: a response with a status, or a
\* rejection (TypeError: network or CORS; AbortError: the timeout fired).
Statuses == {200, 304, 404, 500}
FetchErrors == {"TypeError", "AbortError"}

\* Response.ok
Ok(status) == status >= 200 /\ status <= 299

\* proxies.length
RelayCountOneLess(fn) == IF fn = "fetchWithProxies" THEN 3 ELSE 1
RelayCount(fn) == IF fn = "fetchWithProxies" THEN 4 ELSE 2

\* The responses the function returns to its caller
AcceptsAnyResponse(fn, status) == TRUE
Accepts(fn, status) ==
    \/ Ok(status)
    \/ fn = "fetchWordPressWithRetry" /\ status >= 400 /\ status < 500

\* if (hasAuthHeader): only the direct request, whatever comes of it
DirectOnlyNever(fn, auth) == FALSE
DirectOnly(fn, auth) == fn = "fetchWordPressWithRetry" /\ auth

NoResponse == [kind |-> "pending", status |-> 0, via |-> 0]

\* The header names of browserHeaders, and the credential headers a caller
\* may put into options.headers.
BrowserHeaders == {"User-Agent", "Accept", "Accept-Language"}
CredentialHeaders == {"Authorization", "X-API-KEY"}

\* options.headers of the call
OptionHeaders(auth, key) ==
    {"Content-Type"} \cup (IF auth THEN {"Authorization"} ELSE {})
                    \cup (IF key THEN {"X-API-KEY"} ELSE {})

\* The headers of a request: the direct request and every relay request are
\* made with the same init object, { ...options, headers: { ...browserHeaders,
\* ...options.headers } } in fetchWithProxies and { ...options, signal } in
\* fetchWordPressWithRetry.
HeadersSent(fn, via, headers) ==
    IF fn = "fetchWithProxies" THEN BrowserHeaders \cup headers ELSE headers

FetchInit ==
    /\ fFn \in FetchFns
    /\ fAuth \in BOOLEAN
    /\ fKey \in BOOLEAN
    /\ fPc = "request"
    /\ fTry = 0
    /\ fLog = <<>>
    /\ fResult = NoResponse

FetchIdle ==
    /\ fFn = "fetchWithProxies" /\ fAuth = FALSE /\ fKey = FALSE /\ fPc = "idle" /\ fTry = 0
    /\ fLog = <<>> /\ fResult = NoResponse

\* return response
Returns(status) ==
    /\ fResult' = [kind |-> "response", status |-> status, via |-> fTry]
    /\ fPc' = "settled"
    /\ fTry' = fTry

\* The request failed: the next relay, or the throw after the last one.
NextStrategy ==
    IF fTry < RelayCount(fFn)
    THEN /\ fTry' = fTry + 1
         /\ UNCHANGED <<fPc, fResult>>
    ELSE /\ fResult' = [kind |-> "rejected", status |-> 0, via |-> fTry]
         /\ fPc' = "settled"
         /\ fTry' = fTry

\* The direct request comes back with a response.
DirectResponds(status) ==
    /\ fPc = "request" /\ fTry = 0
    /\ fLog' = Append(fLog, [via |-> 0, status |-> status, error |-> ""])
    /\ IF DirectOnly(fFn, fAuth) \/ Accepts(fFn, status)
       THEN Returns(status)
       ELSE NextStrategy
    /\ UNCHANGED <<fFn, fAuth, fKey>>

\* The direct request rejects.
DirectFails(err) ==
    /\ fPc = "request" /\ fTry = 0
    /\ fLog' = Append(fLog, [via |-> 0, status |-> 0, error |-> err])
    /\ IF DirectOnly(fFn, fAuth)
       THEN /\ fResult' = [kind |-> "rejected", status |-> 0, via |-> 0]
            /\ fPc' = "settled"
            /\ fTry' = fTry
       ELSE NextStrategy
    /\ UNCHANGED <<fFn, fAuth, fKey>>

\* The request to relay fTry comes back with a response.
RelayResponds(status) ==
    /\ fPc = "request" /\ fTry >= 1
    /\ fLog' = Append(fLog, [via |-> fTry, status |-> status, error |-> ""])
    /\ IF Accepts(fFn, status)
       THEN Returns(status)
       ELSE NextStrategy
    /\ UNCHANGED <<fFn, fAuth, fKey>>

\* The request to relay fTry rejects.
RelayFails(err) ==
    /\ fPc = "request" /\ fTry >= 1
    /\ fLog' = Append(fLog, [via |-> fTry, status |-> 0, error |-> err])
    /\ NextStrategy
    /\ UNCHANGED <<fFn, fAuth, fKey>>

FetchNext ==
    \/ \E status \in Statuses : DirectResponds(status) /\ UNCHANGED notFetch
    \/ \E err \in FetchErrors : DirectFails(err) /\ UNCHANGED notFetch
    \/ \E status \in Statuses : RelayResponds(status) /\ UNCHANGED notFetch
    \/ \E err \in FetchErrors : RelayFails(err) /\ UNCHANGED notFetch

\* The requests made so far: those that came back and the one in flight
Requests == Len(fLog) + (IF fPc = "request" THEN 1 ELSE 0)

(* ---- claims about the fetch functions ---- *)

\* A request that came back counts as failed for fetchWithProxies: a
\* rejection (network error, timeout) or a status that is not OK.
FailedAttempt(entry) == entry.error \in FetchErrors \/ ~Ok(entry.status)

\* C13: fetchWithProxies makes its requests in the order direct, relay 1,
\* relay 2, relay 3, relay 4, each only after all earlier ones failed; what
\* it returns is the OK response of the last request made, and nothing is
\* requested after it; it rejects only after all five requests failed.
C13_FallbackOrder ==
    fFn = "fetchWithProxies" =>
        /\ Requests <= 5
        /\ \A k \in 1..Len(fLog) : fLog[k].via = k - 1
        /\ fPc = "request" => fTry = Len(fLog)
        /\ \A k \in 1..Requests - 1 : FailedAttempt(fLog[k])
        /\ fResult.kind = "response" =>
              /\ Ok(fResult.status)
              /\ fPc = "settled"
              /\ fLog[Len(fLog)].status = fResult.status
              /\ fResult.via = Len(fLog) - 1
        /\ fResult.kind = "rejected" =>
              /\ Len(fLog) = 5
              /\ \A k \in 1..5 : FailedAttempt(fLog[k])

\* fetchWithProxies returns the response of relay 3 after the direct request
\* timed out, relay 1 answered 500 and relay 2 was unreachable.
C13_Witness ==
    /\ fFn = "fetchWithProxies"
    /\ fResult = [kind |-> "response", status |-> 200, via |-> 3]
    /\ Len(fLog) = 4
    /\ fLog[1].error = "AbortError"
    /\ fLog[2].status = 500
    /\ fLog[3].error = "TypeError"

\* C14: with an Authorization header fetchWordPressWithRetry makes exactly
\* one request, the direct one; its response is returned whatever the
\* status, and its rejection becomes the rejection of the call.
C14_AuthenticatedDirectOnly ==
    (fFn = "fetchWordPressWithRetry" /\ fAuth) =>
        /\ Requests = 1
        /\ fTry = 0
        /\ \A k \in 1..Len(fLog) : fLog[k].via = 0
        /\ fPc = "settled" =>
              IF fLog[1].error \in FetchErrors
              THEN fResult.kind = "rejected"
              ELSE fResult = [kind |-> "response", status |-> fLog[1].status, via |-> 0]

\* An authenticated request was answered 500 and the 500 response is what
\* the caller gets.
C14_Witness ==
    /\ fFn = "fetchWordPressWithRetry"
    /\ fAuth
    /\ fLog = <<[via |-> 0, status |-> 500, error |-> ""]>>
    /\ fResult = [kind |-> "response", status |-> 500, via |-> 0]

\* C40: credentials are never relayed: no request to a relay carries an
\* Authorization or X-API-KEY header of the caller.
C40_CredentialsNotRelayed ==
    \A k \in 2..Requests :
        HeadersSent(fFn, k - 1, OptionHeaders(fAuth, fKey)) \cap CredentialHeaders = {}

(***************************************************************************)
(* ContentCache: a Map with a timestamp per entry and lazy expiry.         *)
(***************************************************************************)
MaxTicks == 3
\* private TTL = 3600000
TTL == 3600000

CacheKeys == {"serp-t", "sk-t"}
\* Payloads; get returns null where there is nothing to return
Payloads == {1, 2}
Null == 0

\* The amounts by which the clock advances between two operations
TickSteps == {1, TTL - 1, TTL}

NoEntry == [present |-> FALSE, data |-> Null, timestamp |-> 0]
NoOp == [op |-> "none", key |-> "", value |-> Null]

\* item && Date.now() - item.timestamp < this.TTL
VisibleInclusive(item, now) == item.present /\ now - item.timestamp <= TTL
Visible(item, now) == item.present /\ now - item.timestamp < TTL

CacheInit ==
    /\ cCache = [k \in CacheKeys |-> NoEntry]
    /\ cNow \in {0, 5}
    /\ cTicks = 0
    /\ cOp = NoOp
    /\ cLastSet = [k \in CacheKeys |-> NoEntry]

CacheIdle ==
    /\ cCache = [k \in CacheKeys |-> NoEntry] /\ cNow = 0 /\ cTicks = 0
    /\ cOp = NoOp /\ cLastSet = [k \in CacheKeys |-> NoEntry]

\* set(key, data)
CacheSet(key, data) ==
    /\ cCache' = [cCache EXCEPT ![key] =
                     [present |-> TRUE, data |-> data, timestamp |-> cNow]]
    /\ cLastSet' = [cLastSet EXCEPT ![key] =
                     [present |-> TRUE, data |-> data, timestamp |-> cNow]]
    /\ cOp' = [op |-> "set", key |-> key, value |-> Null]
    /\ UNCHANGED <<cNow, cTicks>>

\* get(key)
CacheGet(key) ==
    /\ cOp' = [op |-> "get", key |-> key,
               value |-> IF Visible(cCache[key], cNow) THEN cCache[key].data ELSE Null]
    /\ UNCHANGED <<cCache, cNow, cTicks, cLastSet>>

\* Time passes.
ClockAdvances(d) ==
    /\ cTicks < MaxTicks
    /\ cNow' = cNow + d
    /\ cTicks' = cTicks + 1
    /\ cOp' = NoOp
    /\ UNCHANGED <<cCache, cLastSet>>

CacheNext ==
    \/ \E key \in CacheKeys, data \in Payloads : CacheSet(key, data) /\ UNCHANGED notCache
    \/ \E key \in CacheKeys : CacheGet(key) /\ UNCHANGED notCache
    \/ \E d \in TickSteps : ClockAdvances(d) /\ UNCHANGED notCache

(* ---- claims about the cache ---- *)

\* C15: get(key) returns the payload of the most recent set(key, ...) if
\* there is one and now - timestamp < TTL for it, else null; get leaves the
\* Map as it is; set stores the payload with the current time.
C15_CacheVisibility ==
    [][/\ cOp'.op = "get" =>
             /\ cCache' = cCache
             /\ cOp'.value =
                   IF /\ cLastSet[cOp'.key].present
                      /\ cNow - cLastSet[cOp'.key].timestamp < TTL
                   THEN cLastSet[cOp'.key].data
                   ELSE Null
       /\ cOp'.op = "set" =>
             /\ cCache'[cOp'.key].present
             /\ cCache'[cOp'.key].timestamp = cNow
             /\ \A k \in CacheKeys \ {cOp'.key} : cCache'[k] = cCache[k]]_vars

\* An entry was overwritten, and exactly TTL after the second set a get
\* returned null, the entry still being in the Map.
C15_Witness ==
    /\ cOp = [op |-> "get", key |-> "sk-t", value |-> Null]
    /\ cCache["sk-t"].present
    /\ cCache["sk-t"].data = 2
    /\ cCache["sk-t"].timestamp = 1
    /\ cNow = TTL + 1

(***************************************************************************)
(* App: itemsReducer, generateContent, and the generate / stop / review    *)
(* handlers.  One generateContent call is modelled at a time.  A position  *)
(* of generateContent is either an await (a provider call in flight, where *)
(* the handlers can run) or a point inside a synchronous stretch of code   *)
(* (where nothing else can run).                                           *)
(***************************************************************************)
MaxSections == 2
MaxFaqs == 2
MaxImages == 1
\* generateContent is called at most MaxRuns times
MaxRuns == 1
\* videoQueries has three entries
VideoQueryCount == 3

ItemIds == {"a", "b"}
NoItem == "none"

\* The item lists generateContent is called with: the selected items in the
\* order of the items state, or one item.
Batches == {<<"a">>, <<"b">>, <<"a", "b">>}

\* What a parsed content_meta_and_outline response holds: n outline headings,
\* f faqSection entries, m imageDetails after normalization; shape tells
\* which of the fields Stage 3 reads are there.
Outlines ==
    [n : 0..MaxSections, f : 0..MaxFaqs, m : 1..MaxImages,
     shape : {"complete", "noKeyTakeaways", "noFaqSection"}]
NoOutline == [n |-> 0, f |-> 0, m |-> 1, shape |-> "none"]

\* itemsReducer, case UPDATE_STATUS
UpdateStatus(state, id, status, statusText) ==
    [i \in DOMAIN state |->
        IF i = id
        THEN [state[i] EXCEPT !.status = status, !.statusText = statusText]
        ELSE state[i]]

\* itemsReducer, case SET_CONTENT
SetContent(state, id, content) ==
    [i \in DOMAIN state |->
        IF i = id
        THEN [status |-> "done", statusText |-> "Completed", generatedContent |-> content]
        ELSE state[i]]

\* itemsReducer, case SET_ITEMS
\* What is known of a GeneratedContent: how far the run got that stored it
\* (partial: the assembled HTML; full: after Stage 4), and whether its HTML
\* holds [INTERNAL_LINK ...] and [IMAGE_n_PLACEHOLDER] tokens.
NullContent == [kind |-> "null", linkPh |-> FALSE, imagePh |-> FALSE]

\* The assembled HTML of Stage 3: with or without link placeholders, as the
\* AI wrote the sections, and with the image placeholders of imageDetails.
RawContents == [linkPh : BOOLEAN, imagePh : {TRUE}]

SetItems(ids) ==
    [i \in ids |-> [status |-> "idle", statusText |-> "Not Started",
                    generatedContent |-> NullContent]]

\* Positions inside synchronous code: no handler runs there.
SyncPcs == {"next", "videoLoop", "topic", "preStage2", "sectionLoop", "preFaq",
            "faqLoop", "stage4", "catchTooShort", "imageLoop", "preFinal", "finally"}

\* Positions at an await of a provider call.
AwaitPcs == {"serp", "video", "sk", "outline", "section", "faq",
             "imageOpenai", "imageGemini"}

CurItem == IF pIdx >= 1 /\ pIdx <= Len(pBatch) THEN pBatch[pIdx] ELSE NoItem

\* stopGenerationRef.current.has(item.id)
StopFlagSet == CurItem \in pStopped

\* The provider calls that are issued inside a loop
IndexedCalls == {"video", "section", "faq", "imageOpenai", "imageGemini"}
NoCall == [kind |-> "none", idx |-> 0]

\* A provider call is issued for the current item: remember the first one
\* that is issued although the item's stop flag is set.
NoteCall(kind) ==
    /\ pLateCall' = IF StopFlagSet /\ pLateCall = "none" THEN kind ELSE pLateCall
    /\ pCall' = [kind |-> kind, idx |-> IF kind \in IndexedCalls THEN pI ELSE 0]

\* apiCache is a module-level object: it outlives SET_ITEMS, so the entries
\* of an earlier item list with the same titles may be there.
PipelineInit ==
    /\ pItems = SetItems(ItemIds)
    /\ pStopped = {}
    /\ pIsGenerating = FALSE
    /\ pReview = NoItem
    /\ pCfg \in [serper : BOOLEAN, openai : BOOLEAN, gemini : BOOLEAN]
    /\ pSerpCache \in {{}, ItemIds}
    /\ pSkCache = pSerpCache
    /\ pBatch = <<>>
    /\ pIdx = 0
    /\ pPc = "idle"
    /\ pOutline = NoOutline
    /\ pI = 0
    /\ pBreak = FALSE
    /\ pGenCount = 0
    /\ pProgress = [current |-> 0, total |-> 0]
    /\ pDetected = NoItem
    /\ pLateCall = "none"
    /\ pCall = NoCall
    /\ pContent = NullContent
    /\ pCompleted = {}
    /\ pFailed = {}
    /\ pRuns = 0

\* The app when it is not the component under study.
PipelineIdle ==
    /\ pItems = SetItems(ItemIds) /\ pStopped = {} /\ pIsGenerating = FALSE
    /\ pReview = NoItem
    /\ pCfg = [serper |-> FALSE, openai |-> FALSE, gemini |-> FALSE]
    /\ pSerpCache = {} /\ pSkCache = {} /\ pBatch = <<>> /\ pIdx = 0
    /\ pPc = "idle" /\ pOutline = NoOutline /\ pI = 0 /\ pBreak = FALSE
    /\ pGenCount = 0 /\ pProgress = [current |-> 0, total |-> 0]
    /\ pDetected = NoItem /\ pLateCall = "none" /\ pCall = NoCall /\ pContent = NullContent /\ pCompleted = {} /\ pFailed = {}
    /\ pRuns = 0

(* ---- the handlers ---- *)

\* generateContent(itemsToGenerate) is called: let generatedCount = 0 and
\* the for-of loop starts.
StartRun(batch) ==
    /\ pBatch' = batch
    /\ pIdx' = 1
    /\ pPc' = "next"
    /\ pGenCount' = 0
    /\ pBreak' = FALSE
    /\ pIsGenerating' = TRUE
    /\ pProgress' = [current |-> 0, total |-> Len(batch)]
    /\ pRuns' = pRuns + 1
    /\ pLateCall' = "none"
    /\ pCall' = NoCall
    /\ UNCHANGED <<pItems, pReview, pCfg, pSerpCache, pSkCache, pOutline, pI,
                   pDetected, pContent, pCompleted, pFailed>>

\* The "Generate n Selected" button, shown while isGenerating is false.
HandleGenerateSelected(batch) ==
    /\ pPc = "idle"
    /\ pRuns < MaxRuns
    /\ ~pIsGenerating
    /\ pStopped' = {}
    /\ StartRun(batch)

\* The row's "Generate" button, shown for an item that is not generating and
\* has no generated content.
HandleGenerateSingle(id) ==
    /\ pPc = "idle"
    /\ pRuns < MaxRuns
    /\ pItems[id].status # "generating"
    /\ pItems[id].generatedContent = NullContent
    /\ pStopped' = pStopped \ {id}
    /\ StartRun(<<id>>)

\* The row's "Stop" button, shown for an item whose status is generating.
HandleStopGeneration(id) ==
    /\ pPc \notin SyncPcs
    /\ pItems[id].status = "generating"
    /\ pStopped' = pStopped \cup {id}
    /\ pItems' = UpdateStatus(pItems, id, "idle", "Stopped by user")
    /\ UNCHANGED <<pIsGenerating, pReview, pCfg, pRuns, pContent, pSerpCache, pSkCache, pBatch,
                   pIdx, pPc, pOutline, pI, pBreak, pGenCount, pProgress,
                   pDetected, pLateCall, pCall, pCompleted, pFailed>>

\* The "Stop All" button, shown while isGenerating is true.
HandleStopAll ==
    /\ pPc \notin SyncPcs
    /\ pIsGenerating
    /\ pStopped' = pStopped \cup {i \in ItemIds : pItems[i].status = "generating"}
    /\ pItems' = [i \in ItemIds |->
                    IF pItems[i].status = "generating"
                    THEN [pItems[i] EXCEPT !.status = "idle",
                                           !.statusText = "Stopped by user"]
                    ELSE pItems[i]]
    /\ pIsGenerating' = FALSE
    /\ UNCHANGED <<pReview, pCfg, pRuns, pContent, pSerpCache, pSkCache, pBatch, pIdx, pPc,
                   pOutline, pI, pBreak, pGenCount, pProgress, pDetected,
                   pLateCall, pCall, pCompleted, pFailed>>

\* The row's "Review & Edit" button, shown for an item that is not
\* generating and has generated content.
HandleOpenReview(id) ==
    /\ pPc \notin SyncPcs
    /\ pReview = NoItem
    /\ pItems[id].status # "generating"
    /\ pItems[id].generatedContent # NullContent
    /\ pReview' = id
    /\ UNCHANGED <<pItems, pStopped, pIsGenerating, pCfg, pRuns, pContent, pSerpCache, pSkCache,
                   pBatch, pIdx, pPc, pOutline, pI, pBreak, pGenCount, pProgress,
                   pDetected, pLateCall, pCall, pCompleted, pFailed>>

HandleCloseReview ==
    /\ pPc \notin SyncPcs
    /\ pReview # NoItem
    /\ pReview' = NoItem
    /\ UNCHANGED <<pItems, pStopped, pIsGenerating, pCfg, pRuns, pContent, pSerpCache, pSkCache,
                   pBatch, pIdx, pPc, pOutline, pI, pBreak, pGenCount, pProgress,
                   pDetected, pLateCall, pCall, pCompleted, pFailed>>

\* The review modal's "Save Changes" button.
HandleSaveChanges(id) ==
    /\ pPc \notin SyncPcs
    /\ pReview = id
    /\ pItems' = IF pItems[id].generatedContent # NullContent
                 THEN SetContent(pItems, id, pItems[id].generatedContent)
                 ELSE pItems
    /\ UNCHANGED <<pStopped, pIsGenerating, pReview, pCfg, pRuns, pContent, pSerpCache, pSkCache,
                   pBatch, pIdx, pPc, pOutline, pI, pBreak, pGenCount, pProgress,
                   pDetected, pLateCall, pCall, pCompleted, pFailed>>

(* ---- generateContent ---- *)

\* The top of the for-of loop: the next item, if any.  A stopped item is
\* skipped (continue); otherwise the item is set to generating and Stage 1
\* starts with the SERP request, unless there is no valid Serper key or the
\* SERP data is cached.  After the loop: setIsGenerating(false).
BeginItem ==
    /\ pPc = "next"
    /\ IF pIdx > Len(pBatch)
       THEN /\ pPc' = "idle"
            /\ pIsGenerating' = FALSE
            /\ pBatch' = <<>>
            /\ pIdx' = 0
            /\ pGenCount' = 0
            /\ UNCHANGED <<pItems, pLateCall, pCall, pCompleted, pFailed>>
       ELSE /\ UNCHANGED <<pIsGenerating, pBatch, pGenCount>>
            /\ IF StopFlagSet
               THEN /\ pIdx' = pIdx + 1
                    /\ UNCHANGED <<pItems, pPc, pLateCall, pCall, pCompleted, pFailed>>
               ELSE /\ pIdx' = pIdx
                    /\ pCompleted' = pCompleted \ {CurItem}
                    /\ pFailed' = pFailed \ {CurItem}
                    /\ IF pCfg.serper
                       THEN /\ pItems' = UpdateStatus(pItems, CurItem, "generating",
                                                      "Stage 1/4: Fetching SERP Data...")
                            /\ IF CurItem \in pSerpCache
                               THEN pPc' = "topic" /\ UNCHANGED <<pLateCall, pCall>>
                               ELSE pPc' = "serp" /\ NoteCall("serp")
                       ELSE /\ pItems' = UpdateStatus(pItems, CurItem, "generating",
                                                      "Initializing...")
                            /\ pPc' = "topic"
                            /\ UNCHANGED <<pLateCall, pCall>>
    /\ UNCHANGED <<pStopped, pReview, pCfg, pRuns, pContent, pSerpCache, pSkCache, pOutline, pI,
                   pBreak, pProgress, pDetected>>

\* The SERP request returns.  A failure (rejection, non-OK status, invalid
\* JSON) is caught and logged, and Stage 1 goes on with the topic analysis.
SerpReturns(ok) ==
    /\ pPc = "serp"
    /\ IF ok THEN pPc' = "videoLoop" /\ pI' = 1
             ELSE pPc' = "topic" /\ pI' = 0
    /\ UNCHANGED <<pItems, pStopped, pIsGenerating, pReview, pCfg, pRuns, pContent, pSerpCache,
                   pSkCache, pBatch, pIdx, pOutline, pBreak, pGenCount, pProgress,
                   pDetected, pLateCall, pCall, pCompleted, pFailed>>

\* The top of the loop over videoQueries: it ends after the last query, or
\* when ten candidates are there (which takes at least one answered query);
\* then the SERP data is cached.
VideoLoop(enough) ==
    /\ pPc = "videoLoop"
    /\ enough => pI > 1
    /\ IF pI > VideoQueryCount \/ enough
       THEN /\ pSerpCache' = pSerpCache \cup {CurItem}
            /\ pPc' = "topic"
            /\ pI' = 0
            /\ UNCHANGED <<pLateCall, pCall>>
       ELSE /\ pPc' = "video"
            /\ NoteCall("video")
            /\ UNCHANGED <<pSerpCache, pI>>
    /\ UNCHANGED <<pItems, pStopped, pIsGenerating, pReview, pCfg, pRuns, pContent, pSkCache,
                   pBatch, pIdx, pOutline, pBreak, pGenCount, pProgress,
                   pDetected, pCompleted, pFailed>>

\* A video search returns; its failure is caught and logged.
VideoReturns ==
    /\ pPc = "video"
    /\ pPc' = "videoLoop"
    /\ pI' = pI + 1
    /\ UNCHANGED <<pItems, pStopped, pIsGenerating, pReview, pCfg, pRuns, pContent, pSerpCache,
                   pSkCache, pBatch, pIdx, pOutline, pBreak, pGenCount, pProgress,
                   pDetected, pLateCall, pCall, pCompleted, pFailed>>

\* Stage 1, topic analysis: the semantic keywords come from the cache or
\* from callAI('semantic_keyword_generator').
Topic ==
    /\ pPc = "topic"
    /\ pItems' = UpdateStatus(pItems, CurItem, "generating", "Stage 1/4: Analyzing Topic...")
    /\ IF CurItem \in pSkCache
       THEN pPc' = "preStage2" /\ UNCHANGED <<pLateCall, pCall>>
       ELSE pPc' = "sk" /\ NoteCall("sk")
    /\ UNCHANGED <<pStopped, pIsGenerating, pReview, pCfg, pRuns, pContent, pSerpCache, pSkCache,
                   pBatch, pIdx, pOutline, pI, pBreak, pGenCount, pProgress,
                   pDetected, pCompleted, pFailed>>

\* The catch block for an error that is no ContentTooShortError.
CatchError ==
    /\ pItems' = UpdateStatus(pItems, CurItem, "error", "Error: ...")
    /\ pFailed' = pFailed \cup {CurItem}
    /\ pPc' = "finally"

\* callAI('semantic_keyword_generator') returns; it, extractJson or
\* JSON.parse may throw.
SkReturns(ok) ==
    /\ pPc = "sk"
    /\ IF ok
       THEN /\ pSkCache' = pSkCache \cup {CurItem}
            /\ pPc' = "preStage2"
            /\ UNCHANGED <<pItems, pFailed>>
       ELSE /\ CatchError
            /\ UNCHANGED pSkCache
    /\ UNCHANGED <<pStopped, pIsGenerating, pReview, pCfg, pRuns, pContent, pSerpCache, pBatch,
                   pIdx, pOutline, pI, pBreak, pGenCount, pProgress, pDetected,
                   pLateCall, pCall, pCompleted>>

\* if (stopGenerationRef.current.has(item.id)) break;  then Stage 2 starts.
PreStage2 ==
    /\ pPc = "preStage2"
    /\ IF StopFlagSet
       THEN /\ pDetected' = CurItem
            /\ pBreak' = TRUE
            /\ pPc' = "finally"
            /\ UNCHANGED <<pItems, pLateCall, pCall>>
       ELSE /\ pItems' = UpdateStatus(pItems, CurItem, "generating",
                                      "Stage 2/4: Generating Article Outline...")
            /\ pPc' = "outline"
            /\ NoteCall("outline")
            /\ UNCHANGED <<pDetected, pBreak>>
    /\ UNCHANGED <<pStopped, pIsGenerating, pReview, pCfg, pRuns, pContent, pSerpCache, pSkCache,
                   pBatch, pIdx, pOutline, pI, pGenCount, pProgress, pCompleted,
                   pFailed>>

\* callAI('content_meta_and_outline') returns.  ok: the response parsed to o;
\* metaAndOutline.keyTakeaways.map throws when the field is missing.
OutlineReturns(ok, o) ==
    /\ pPc = "outline"
    /\ IF ok /\ o.shape # "noKeyTakeaways"
       THEN /\ pOutline' = o
            /\ pI' = 1
            /\ pPc' = "sectionLoop"
            /\ UNCHANGED <<pItems, pFailed>>
       ELSE /\ CatchError
            /\ pOutline' = IF ok THEN o ELSE pOutline
            /\ UNCHANGED pI
    /\ UNCHANGED <<pStopped, pIsGenerating, pReview, pCfg, pRuns, pContent, pSerpCache, pSkCache,
                   pBatch, pIdx, pBreak, pGenCount, pProgress, pDetected,
                   pLateCall, pCall, pCompleted>>

\* The top of the loop over metaAndOutline.outline.
SectionLoop ==
    /\ pPc = "sectionLoop"
    /\ IF pI > pOutline.n
       THEN /\ pPc' = "preFaq"
            /\ UNCHANGED <<pItems, pDetected, pLateCall, pCall>>
       ELSE IF StopFlagSet
       THEN /\ pDetected' = CurItem
            /\ pPc' = "preFaq"
            /\ UNCHANGED <<pItems, pLateCall, pCall>>
       ELSE /\ pItems' = UpdateStatus(pItems, CurItem, "generating",
                                      "Stage 3/4: Writing Section")
            /\ pPc' = "section"
            /\ NoteCall("section")
            /\ UNCHANGED pDetected
    /\ UNCHANGED <<pStopped, pIsGenerating, pReview, pCfg, pRuns, pContent, pSerpCache, pSkCache,
                   pBatch, pIdx, pOutline, pI, pBreak, pGenCount, pProgress,
                   pCompleted, pFailed>>

\* The section loop without its i++
SectionReturnsNoAdvance(ok) ==
    /\ pPc = "section"
    /\ IF ok
       THEN /\ pI' = pI
            /\ pPc' = "sectionLoop"
            /\ UNCHANGED <<pItems, pFailed>>
       ELSE /\ CatchError
            /\ UNCHANGED pI
    /\ UNCHANGED <<pStopped, pIsGenerating, pReview, pCfg, pRuns, pContent, pSerpCache, pSkCache,
                   pBatch, pIdx, pOutline, pBreak, pGenCount, pProgress, pDetected,
                   pLateCall, pCall, pCompleted>>

\* callAI('write_article_section') returns.
SectionReturns(ok) ==
    /\ pPc = "section"
    /\ IF ok
       THEN /\ pI' = pI + 1
            /\ pPc' = "sectionLoop"
            /\ UNCHANGED <<pItems, pFailed>>
       ELSE /\ CatchError
            /\ UNCHANGED pI
    /\ UNCHANGED <<pStopped, pIsGenerating, pReview, pCfg, pRuns, pContent, pSerpCache, pSkCache,
                   pBatch, pIdx, pOutline, pBreak, pGenCount, pProgress, pDetected,
                   pLateCall, pCall, pCompleted>>

\* if (stopGenerationRef.current.has(item.id)) break;  then the FAQ heading
\* and the loop over metaAndOutline.faqSection, which throws when the field
\* is missing.
PreFaq ==
    /\ pPc = "preFaq"
    /\ IF StopFlagSet
       THEN /\ pDetected' = CurItem
            /\ pBreak' = TRUE
            /\ pPc' = "finally"
            /\ UNCHANGED <<pItems, pI, pFailed>>
       ELSE IF pOutline.shape = "noFaqSection"
       THEN /\ CatchError
            /\ UNCHANGED <<pDetected, pBreak, pI>>
       ELSE /\ pI' = 1
            /\ pPc' = "faqLoop"
            /\ UNCHANGED <<pItems, pDetected, pBreak, pFailed>>
    /\ UNCHANGED <<pStopped, pIsGenerating, pReview, pCfg, pRuns, pContent, pSerpCache, pSkCache,
                   pBatch, pIdx, pOutline, pGenCount, pProgress, pLateCall, pCall,
                   pCompleted>>

\* The top of the loop over metaAndOutline.faqSection; its break leaves this
\* loop only.
FaqLoop ==
    /\ pPc = "faqLoop"
    /\ IF pI > pOutline.f
       THEN /\ pPc' = "stage4"
            /\ UNCHANGED <<pDetected, pLateCall, pCall>>
       ELSE IF StopFlagSet
       THEN /\ pDetected' = CurItem
            /\ pPc' = "stage4"
            /\ UNCHANGED <<pLateCall, pCall>>
       ELSE /\ pPc' = "faq"
            /\ NoteCall("faq")
            /\ UNCHANGED pDetected
    /\ UNCHANGED <<pItems, pStopped, pIsGenerating, pReview, pCfg, pRuns, pContent, pSerpCache,
                   pSkCache, pBatch, pIdx, pOutline, pI, pBreak, pGenCount,
                   pProgress, pCompleted, pFailed>>

\* callAI('write_faq_answer') returns.
FaqReturns(ok) ==
    /\ pPc = "faq"
    /\ IF ok
       THEN /\ pI' = pI + 1
            /\ pPc' = "faqLoop"
            /\ UNCHANGED <<pItems, pFailed>>
       ELSE /\ CatchError
            /\ UNCHANGED pI
    /\ UNCHANGED <<pStopped, pIsGenerating, pReview, pCfg, pRuns, pContent, pSerpCache, pSkCache,
                   pBatch, pIdx, pOutline, pBreak, pGenCount, pProgress, pDetected,
                   pLateCall, pCall, pCompleted>>

\* validateAndRepairInternalLinks, enforceInternalLinkQuota and
\* processInternalLinks in a row: with an empty page list each returns the
\* content as it is; else every placeholder ends as a link or as its text.
LinkPassesAlways(raw, pages) == FALSE
LinkPasses(raw, pages) == raw.linkPh /\ ~pages

\* A catch block that stores the content with its placeholders resolved
PartialContentProcessed(raw) == [kind |-> "partial", linkPh |-> FALSE, imagePh |-> FALSE]
\* The catch block's partialContent, { ...processedContent, content:
\* error.content }: the content enforceWordCount was given.
PartialContent(raw) ==
    [kind |-> "partial", linkPh |-> raw.linkPh, imagePh |-> raw.imagePh]

\* Stage 4 up to the image generation: the content is assembled and
\* enforceWordCount either throws ContentTooShortError, whose catch block
\* first dispatches SET_CONTENT with the partial content, or passes; then the
\* link passes, the video correction and the references.  Without a valid
\* image key the image placeholders are stripped.  pages: whether
\* existingPages holds any page.
Stage4(tooShort, raw, pages) ==
    /\ pPc = "stage4"
    /\ IF tooShort
       THEN /\ pItems' = SetContent(pItems, CurItem, PartialContent(raw))
            /\ pFailed' = pFailed \cup {CurItem}
            /\ pPc' = "catchTooShort"
            /\ pContent' = [kind |-> "assembled", linkPh |-> raw.linkPh,
                            imagePh |-> raw.imagePh]
            /\ UNCHANGED pI
       ELSE /\ pI' = 1
            /\ pPc' = IF pCfg.openai \/ pCfg.gemini THEN "imageLoop" ELSE "preFinal"
            /\ pContent' = [kind |-> "full",
                            linkPh |-> LinkPasses(raw, pages),
                            imagePh |-> (pCfg.openai \/ pCfg.gemini) /\ raw.imagePh]
            /\ UNCHANGED <<pItems, pFailed>>
    /\ UNCHANGED <<pStopped, pIsGenerating, pReview, pCfg, pRuns, pSerpCache, pSkCache,
                   pBatch, pIdx, pOutline, pBreak, pGenCount, pProgress, pDetected,
                   pLateCall, pCall, pCompleted>>

\* The second dispatch of the ContentTooShortError catch block.
CatchTooShort ==
    /\ pPc = "catchTooShort"
    /\ pItems' = UpdateStatus(pItems, CurItem, "error", "Quality Check Failed: ...")
    /\ pPc' = "finally"
    /\ UNCHANGED <<pStopped, pIsGenerating, pReview, pCfg, pRuns, pContent, pSerpCache, pSkCache,
                   pBatch, pIdx, pOutline, pI, pBreak, pGenCount, pProgress,
                   pDetected, pLateCall, pCall, pCompleted, pFailed>>

\* The top of the loop over processedContent.imageDetails, and the start of
\* generateImageWithFallback: OpenAI first if it is valid, else Gemini.
ImageLoop ==
    /\ pPc = "imageLoop"
    /\ IF pI > pOutline.m
       THEN /\ pPc' = "preFinal"
            /\ pContent' = [pContent EXCEPT !.imagePh = FALSE]
            /\ UNCHANGED <<pItems, pDetected, pLateCall, pCall>>
       ELSE IF StopFlagSet
       THEN /\ pDetected' = CurItem
            /\ pPc' = "preFinal"
            /\ UNCHANGED <<pItems, pLateCall, pCall, pContent>>
       ELSE /\ pItems' = UpdateStatus(pItems, CurItem, "generating",
                                      "Stage 4/4: Generating Image")
            /\ pPc' = IF pCfg.openai THEN "imageOpenai" ELSE "imageGemini"
            /\ NoteCall(IF pCfg.openai THEN "imageOpenai" ELSE "imageGemini")
            /\ UNCHANGED <<pDetected, pContent>>
    /\ UNCHANGED <<pStopped, pIsGenerating, pReview, pCfg, pRuns, pSerpCache, pSkCache,
                   pBatch, pIdx, pOutline, pI, pBreak, pGenCount, pProgress,
                   pCompleted, pFailed>>

\* The OpenAI image call returns; on failure generateImageWithFallback goes
\* on to Gemini if it is valid, else it returns null.
ImageOpenaiReturns(ok) ==
    /\ pPc = "imageOpenai"
    /\ IF ~ok /\ pCfg.gemini
       THEN /\ pPc' = "imageGemini"
            /\ NoteCall("imageGemini")
            /\ UNCHANGED pI
       ELSE /\ pPc' = "imageLoop"
            /\ pI' = pI + 1
            /\ UNCHANGED <<pLateCall, pCall>>
    /\ UNCHANGED <<pItems, pStopped, pIsGenerating, pReview, pCfg, pRuns, pContent, pSerpCache,
                   pSkCache, pBatch, pIdx, pOutline, pBreak, pGenCount, pProgress,
                   pDetected, pCompleted, pFailed>>

\* The Gemini image call returns, with an image or not.
ImageGeminiReturns ==
    /\ pPc = "imageGemini"
    /\ pPc' = "imageLoop"
    /\ pI' = pI + 1
    /\ UNCHANGED <<pItems, pStopped, pIsGenerating, pReview, pCfg, pRuns, pContent, pSerpCache,
                   pSkCache, pBatch, pIdx, pOutline, pBreak, pGenCount, pProgress,
                   pDetected, pLateCall, pCall, pCompleted, pFailed>>

\* if (stopGenerationRef.current.has(item.id)) break;  then 'Finalizing...'
\* and SET_CONTENT with the processed content.
PreFinal ==
    /\ pPc = "preFinal"
    /\ IF StopFlagSet
       THEN /\ pDetected' = CurItem
            /\ pBreak' = TRUE
            /\ UNCHANGED <<pItems, pCompleted>>
       ELSE /\ pItems' = SetContent(
                    UpdateStatus(pItems, CurItem, "generating", "Stage 4/4: Finalizing..."),
                    CurItem, pContent)
            /\ pCompleted' = pCompleted \cup {CurItem}
            /\ UNCHANGED <<pDetected, pBreak>>
    /\ pPc' = "finally"
    /\ UNCHANGED <<pStopped, pIsGenerating, pReview, pCfg, pRuns, pContent, pSerpCache, pSkCache,
                   pBatch, pIdx, pOutline, pI, pGenCount, pProgress, pLateCall, pCall,
                   pFailed>>

\* A loop that a failed item ends
FinallyAbortsOnFailure ==
    /\ pPc = "finally"
    /\ pGenCount' = IF pBreak THEN 0 ELSE pGenCount + 1
    /\ pProgress' = [current |-> pGenCount + 1, total |-> Len(pBatch)]
    /\ pOutline' = NoOutline
    /\ pI' = 0
    /\ pDetected' = NoItem
    /\ pCall' = NoCall
    /\ pContent' = NullContent
    /\ pBreak' = FALSE
    /\ IF pBreak \/ CurItem \in pFailed
       THEN /\ pPc' = "idle"
            /\ pIsGenerating' = FALSE
            /\ pBatch' = <<>>
            /\ pIdx' = 0
       ELSE /\ pPc' = "next"
            /\ pIdx' = pIdx + 1
            /\ UNCHANGED <<pIsGenerating, pBatch>>
    /\ UNCHANGED <<pItems, pStopped, pReview, pCfg, pRuns, pSerpCache, pSkCache,
                   pLateCall, pCompleted, pFailed>>

\* The finally block, and then either the next item or, after a break, the
\* end of the loop: setIsGenerating(false).
Finally ==
    /\ pPc = "finally"
    /\ pGenCount' = IF pBreak THEN 0 ELSE pGenCount + 1
    /\ pProgress' = [current |-> pGenCount + 1, total |-> Len(pBatch)]
    /\ pOutline' = NoOutline
    /\ pI' = 0
    /\ pDetected' = NoItem
    /\ pCall' = NoCall
    /\ pContent' = NullContent
    /\ pBreak' = FALSE
    /\ IF pBreak
       THEN /\ pPc' = "idle"
            /\ pIsGenerating' = FALSE
            /\ pBatch' = <<>>
            /\ pIdx' = 0
       ELSE /\ pPc' = "next"
            /\ pIdx' = pIdx + 1
            /\ UNCHANGED <<pIsGenerating, pBatch>>
    /\ UNCHANGED <<pItems, pStopped, pReview, pCfg, pRuns, pSerpCache, pSkCache,
                   pLateCall, pCompleted, pFailed>>

PipelineNext ==
    \/ \E batch \in Batches : HandleGenerateSelected(batch) /\ UNCHANGED notPipeline
    \/ \E id \in ItemIds : HandleGenerateSingle(id) /\ UNCHANGED notPipeline
    \/ \E id \in ItemIds : HandleStopGeneration(id) /\ UNCHANGED notPipeline
    \/ HandleStopAll /\ UNCHANGED notPipeline
    \/ \E id \in ItemIds : HandleOpenReview(id) /\ UNCHANGED notPipeline
    \/ HandleCloseReview /\ UNCHANGED notPipeline
    \/ \E id \in ItemIds : HandleSaveChanges(id) /\ UNCHANGED notPipeline
    \/ BeginItem /\ UNCHANGED notPipeline
    \/ \E ok \in BOOLEAN : SerpReturns(ok) /\ UNCHANGED notPipeline
    \/ \E enough \in BOOLEAN : VideoLoop(enough) /\ UNCHANGED notPipeline
    \/ VideoReturns /\ UNCHANGED notPipeline
    \/ Topic /\ UNCHANGED notPipeline
    \/ \E ok \in BOOLEAN : SkReturns(ok) /\ UNCHANGED notPipeline
    \/ PreStage2 /\ UNCHANGED notPipeline
    \/ \E ok \in BOOLEAN, o \in Outlines : OutlineReturns(ok, o) /\ UNCHANGED notPipeline
    \/ SectionLoop /\ UNCHANGED notPipeline
    \/ \E ok \in BOOLEAN : SectionReturns(ok) /\ UNCHANGED notPipeline
    \/ PreFaq /\ UNCHANGED notPipeline
    \/ FaqLoop /\ UNCHANGED notPipeline
    \/ \E ok \in BOOLEAN : FaqReturns(ok) /\ UNCHANGED notPipeline
    \/ \E tooShort \in BOOLEAN, raw \in RawContents, pages \in BOOLEAN :
          Stage4(tooShort, raw, pages) /\ UNCHANGED notPipeline
    \/ CatchTooShort /\ UNCHANGED notPipeline
    \/ ImageLoop /\ UNCHANGED notPipeline
    \/ \E ok \in BOOLEAN : ImageOpenaiReturns(ok) /\ UNCHANGED notPipeline
    \/ ImageGeminiReturns /\ UNCHANGED notPipeline
    \/ PreFinal /\ UNCHANGED notPipeline
    \/ Finally /\ UNCHANGED notPipeline

\* The steps of generateContent: its synchronous stretches and the returns
\* of the provider calls it awaits.
RunStep ==
    \/ BeginItem
    \/ \E ok \in BOOLEAN : SerpReturns(ok)
    \/ \E enough \in BOOLEAN : VideoLoop(enough)
    \/ VideoReturns
    \/ Topic
    \/ \E ok \in BOOLEAN : SkReturns(ok)
    \/ PreStage2
    \/ \E ok \in BOOLEAN, o \in Outlines : OutlineReturns(ok, o)
    \/ SectionLoop
    \/ \E ok \in BOOLEAN : SectionReturns(ok)
    \/ PreFaq
    \/ FaqLoop
    \/ \E ok \in BOOLEAN : FaqReturns(ok)
    \/ \E tooShort \in BOOLEAN, raw \in RawContents, pages \in BOOLEAN :
          Stage4(tooShort, raw, pages)
    \/ CatchTooShort
    \/ ImageLoop
    \/ \E ok \in BOOLEAN : ImageOpenaiReturns(ok)
    \/ ImageGeminiReturns
    \/ PreFinal
    \/ Finally

(* ---- claims about the app ---- *)

\* C8: an item's status becomes done only from generating and only when its
\* run completed all four stages; it becomes error only from generating; and
\* an item whose run failed a quality gate or raised an error is not in
\* status done afterwards, in no reducer state.
C8_Lifecycle ==
    [][\A i \in ItemIds :
          /\ (pItems'[i].status = "done" /\ pItems[i].status # "done")
                => (pItems[i].status = "generating" /\ i \in pCompleted')
          /\ (pItems'[i].status = "error" /\ pItems[i].status # "error")
                => pItems[i].status = "generating"
          /\ i \in pFailed' => pItems'[i].status # "done"]_vars

\* C9: the run issues no provider call for an item while the item's stop
\* flag is set.
C9_NoCallAfterStop == pLateCall = "none"

\* C10: once the run has detected the stop flag of its item, it changes
\* neither the status, nor the status text, nor the content of the item.
C10_StoppedStaysIdle ==
    [][(pDetected # NoItem /\ pDetected' = pDetected)
          => pItems'[pDetected] = pItems[pDetected]]_vars

\* The order of the stages the provider calls belong to
CallRank(kind) ==
    CASE kind = "none" -> 0
      [] kind \in {"serp", "video", "sk"} -> 1
      [] kind = "outline" -> 2
      [] kind = "section" -> 3
      [] kind = "faq" -> 4
      [] OTHER -> 5

\* The positions of post-processing
PostPcs == {"stage4", "catchTooShort", "imageLoop", "preFinal", "imageOpenai",
            "imageGemini"}

\* C11: whenever a provider call is issued for an item, its stage is not
\* before the stage of the item's previous call; outline, section and FAQ
\* calls are issued while no other call is in flight; a section call follows
\* the outline call or the previous section's call; section and FAQ calls are
\* issued in index order, one by one; and once post-processing has started
\* only image calls are issued.
C11_StageOrdering ==
    [][(pPc' \in AwaitPcs /\ pPc' # pPc) =>
          /\ CallRank(pCall.kind) <= CallRank(pCall'.kind)
          /\ pCall'.kind \in {"outline", "section", "faq"} => pPc \in SyncPcs
          /\ pCall'.kind = "section" => pCall.kind \in {"outline", "section"}
          /\ pCall'.kind \in {"section", "faq"} =>
                pCall'.idx = IF pCall.kind = pCall'.kind THEN pCall.idx + 1 ELSE 1
          /\ pPc \in PostPcs => CallRank(pCall'.kind) = 5]_vars

\* The second FAQ answer is requested after both sections of a two-section
\* outline.
C11_Witness ==
    /\ pPc = "faq"
    /\ pCall = [kind |-> "faq", idx |-> 2]
    /\ pOutline.n = 2

C16_NoPlaceholders ==
    \A i \in ItemIds :
        (i \in pCompleted /\ pItems[i].status = "done")
            => /\ ~pItems[i].generatedContent.linkPh
               /\ ~pItems[i].generatedContent.imagePh

\* C17: an outline response that parses but lacks a field does not make the
\* item fail: in the step that meets the missing field the item does not
\* become error.
C17_MissingFieldTolerated ==
    [][(/\ pPc \in {"outline", "preFaq"}
        /\ pOutline'.shape \in {"noKeyTakeaways", "noFaqSection"})
           => pItems'[CurItem].status # "error"]_vars

\* C18: when the word-count gate fails, the catch block leaves the item in
\* status error with the quality-check text and with the assembled content
\* as enforceWordCount got it; the run goes to the finally block, and no
\* image call is issued for the item.
C18_TooShortPreserved ==
    [][pPc = "catchTooShort" =>
          /\ pItems'[CurItem].status = "error"
          /\ pItems'[CurItem].statusText = "Quality Check Failed: ..."
          /\ pItems'[CurItem].generatedContent =
                 [kind |-> "partial", linkPh |-> pContent.linkPh,
                  imagePh |-> pContent.imagePh]
          /\ pContent.kind = "assembled"
          /\ pPc' = "finally"
          /\ pCall' = pCall
          /\ CallRank(pCall.kind) < 5]_vars

\* An item whose content was too short is in error and keeps the content with
\* its link and image placeholders.
C18_Witness ==
    /\ pPc = "finally"
    /\ CurItem \in pFailed
    /\ pItems[CurItem].status = "error"
    /\ pItems[CurItem].statusText = "Quality Check Failed: ..."
    /\ pItems[CurItem].generatedContent =
           [kind |-> "partial", linkPh |-> TRUE, imagePh |-> TRUE]

\* C37: stopping one item cancels only that item: when the run of an item of
\* a batch ends because the item was stopped, the loop goes on to the next
\* item of the batch whose stop flag is not set.
C37_StopCancelsOnlyThatItem ==
    [][(/\ pPc = "finally"
        /\ pBreak
        /\ pIdx < Len(pBatch)
        /\ pBatch[pIdx + 1] \notin pStopped)
          => (pPc' = "next" /\ pBatch' = pBatch /\ pIdx' = pIdx + 1)]_vars

(***************************************************************************)
(* enforceWordCount: the word-count gate of Stage 4                        *)
(***************************************************************************)
\* Bound: the longest content, in tokens.
MaxTokens == 3

TARGET_MIN_WORDS == 2200
TARGET_MAX_WORDS == 2800
TARGET_MIN_WORDS_PILLAR == 3500
TARGET_MAX_WORDS_PILLAR == 4500

\* A content is a sequence of tokens: the character "<", the character ">",
\* a white-space character, or a positive number n for n words with a single
\* space between them.
Lt == -1
Gt == -2
Sp == 0
WordBlocks == {1, 1300, 2199, 2200, 4501}
Tokens == {Lt, Gt, Sp} \cup WordBlocks
Contents == UNION {[1..n -> Tokens] : n \in 0..MaxTokens}

ItemTypes == {"pillar", "cluster", "standard"}

NoResult == [kind |-> "none", content |-> <<>>, wordCount |-> 0, warned |-> FALSE]

\* content.replace(/<[^>]*>/g, ' '): a "<" up to the next ">" becomes a space;
\* a "<" with no ">" after it stays.
RECURSIVE StripTags(_)
StripTags(s) ==
    IF s = <<>> THEN <<>>
    ELSE IF Head(s) = Lt /\ \E j \in 2..Len(s) : s[j] = Gt
         THEN LET j == CHOOSE k \in 2..Len(s) :
                           s[k] = Gt /\ \A h \in 2..(k - 1) : s[h] # Gt
              IN  <<Sp>> \o StripTags(SubSeq(s, j + 1, Len(s)))
         ELSE <<Head(s)>> \o StripTags(Tail(s))

\* .replace(/\s+/g, ' ')
RECURSIVE CollapseSpaces(_)
CollapseSpaces(s) ==
    IF Len(s) < 2 THEN s
    ELSE IF s[1] = Sp /\ s[2] = Sp
         THEN CollapseSpaces(Tail(s))
         ELSE <<Head(s)>> \o CollapseSpaces(Tail(s))

\* .trim()
RECURSIVE Trim(_)
Trim(s) ==
    IF s # <<>> /\ Head(s) = Sp THEN Trim(Tail(s))
    ELSE IF s # <<>> /\ s[Len(s)] = Sp THEN Trim(SubSeq(s, 1, Len(s) - 1))
    ELSE s

\* The white space a separator match of /\s+/ goes on to swallow.
RECURSIVE SkipSpaces(_)
SkipSpaces(s) == IF s # <<>> /\ Head(s) = Sp THEN SkipSpaces(Tail(s)) ELSE s

\* textOnly.split(/\s+/): the pieces between the runs of white space; the
\* empty string gives one empty piece.
RECURSIVE Split(_)
Split(s) ==
    IF \A i \in 1..Len(s) : s[i] # Sp THEN <<s>>
    ELSE LET i == CHOOSE k \in 1..Len(s) : s[k] = Sp /\ \A h \in 1..(k - 1) : s[h] # Sp
         IN  <<SubSeq(s, 1, i - 1)>> \o Split(SkipSpaces(SubSeq(s, i + 1, Len(s))))

\* The words a token stands for: a single character is (part of) one word.
TokenWords(t) == IF t > 0 THEN t ELSE 1

\* The words in a piece without white space: neighbouring tokens share the
\* word at their border.
RECURSIVE WordsIn(_)
WordsIn(w) ==
    IF w = <<>> THEN 0
    ELSE IF Len(w) = 1 THEN TokenWords(w[1])
    ELSE TokenWords(Head(w)) - 1 + WordsIn(Tail(w))

\* words.length
RECURSIVE Length(_)
Length(words) ==
    IF words = <<>> THEN 0 ELSE WordsIn(Head(words)) + Length(Tail(words))

\* A gate that also rejects a count equal to the minimum
TooShortInclusive(wordCount, minWords) == wordCount <= minWords
\* if (wordCount < minWords)
TooShort(wordCount, minWords) == wordCount < minWords

enforceWordCount(content, minWords, maxWords) ==
    LET textOnly == Trim(CollapseSpaces(StripTags(content)))
        words == SelectSeq(Split(textOnly), LAMBDA w : Len(w) > 0)
        wordCount == Length(words)
    IN  IF TooShort(wordCount, minWords)
        THEN [kind |-> "ContentTooShortError", content |-> content,
              wordCount |-> wordCount, warned |-> FALSE]
        ELSE [kind |-> "return", content |-> <<>>, wordCount |-> wordCount,
              warned |-> wordCount > maxWords]

\* const isPillar = item.type === 'pillar';
IsPillar(type) == type = "pillar"

WordGateInit ==
    /\ wContent \in Contents
    /\ wType \in ItemTypes
    /\ wPc = "call"
    /\ wResult = NoResult

WordGateIdle ==
    /\ wContent = <<>> /\ wType = "standard" /\ wPc = "idle" /\ wResult = NoResult

\* The quality gate of Stage 4 calls enforceWordCount with the limits of the
\* item's variant.
QualityGate ==
    /\ wPc = "call"
    /\ wResult' = enforceWordCount(wContent,
                      IF IsPillar(wType) THEN TARGET_MIN_WORDS_PILLAR ELSE TARGET_MIN_WORDS,
                      IF IsPillar(wType) THEN TARGET_MAX_WORDS_PILLAR ELSE TARGET_MAX_WORDS)
    /\ wPc' = "done"
    /\ UNCHANGED <<wContent, wType>>

WordGateNext ==
    \/ QualityGate /\ UNCHANGED notWordGate

RECURSIVE SumWords(_, _)
SumWords(t, idx) ==
    IF idx = {} THEN 0
    ELSE LET i == CHOOSE k \in idx : TRUE
         IN  TokenWords(t[i]) + SumWords(t, idx \ {i})

\* The number of words of a content once its tags are taken out: the words
\* of all tokens that are no white space, less one for every two such tokens
\* next to each other.
TagStrippedWords(s) ==
    LET t == StripTags(s)
        nonSp == {i \in 1..Len(t) : t[i] # Sp}
    IN  SumWords(t, nonSp) - Cardinality({i \in nonSp : i + 1 \in nonSp})

MaxPieces == 5

\* A text is a sequence of lower-case words with single spaces between them.
\* A content is a sequence of pieces: the opening of a placeholder,
\* [INTERNAL_LINK slug=" ; its closing with the anchor text v,
\* " text="v"] ; or a text v, which holds no quote.
Open == [k |-> "open", v |-> <<>>]
Close(text) == [k |-> "close", v |-> text]
Text(v) == [k |-> "text", v |-> v]

Anchors == {<<"seo">>, <<"tips", "about">>, <<"ai">>}
SlugTexts == {<<"seo-tips">>, <<"bad">>}
Pieces == {Open} \cup {Close(a) : a \in Anchors} \cup {Text(v) : v \in Anchors \cup SlugTexts}
LinkContents == UNION {[1..n -> Pieces] : n \in 0..MaxPieces}

\* Pages of the sitemap; Untitled has no title, and the title of AiHub has no
\* word longer than two characters.
SeoTips == [slug |-> <<"seo-tips">>, title |-> <<"seo", "tips">>]
About == [slug |-> <<"about">>, title |-> <<"about", "ai">>]
Untitled == [slug |-> <<"home">>, title |-> <<>>]
AiHub == [slug |-> <<"ai-hub">>, title |-> <<"ai">>]
PageLists == {<<>>, <<SeoTips>>, <<Untitled, About>>, <<AiHub, SeoTips>>}

\* w.length > 2
LongWords == {"seo", "tips", "about"}

\* The end of the ([^"]+) group that starts after piece i: the first piece
\* after i that is no text, 0 if there is none.
SlugEnd(s, i) ==
    IF \E j \in (i + 1)..Len(s) : s[j].k # "text"
    THEN CHOOSE j \in (i + 1)..Len(s) :
             s[j].k # "text" /\ \A h \in (i + 1)..(j - 1) : s[h].k = "text"
    ELSE 0

\* placeholderRegex matches at piece i: an opening, a slug of one or more
\* characters without a quote, and a closing.
IsMatch(s, i) ==
    /\ i <= Len(s)
    /\ s[i].k = "open"
    /\ SlugEnd(s, i) > i + 1
    /\ s[SlugEnd(s, i)].k = "close"

\* pagesBySlug.has(slug): the slug, one or more texts in a row, is the slug
\* of a page.
Known(slug, pages) ==
    /\ Len(slug) = 1
    /\ \E n \in 1..Len(pages) : pages[n].slug = slug[1].v

\* The words of a text that are longer than two characters, as a Set.
WordSet(text) == {text[n] : n \in {m \in 1..Len(text) : text[m] \in LongWords}}

\* a.includes(b)
Includes(a, b) ==
    \E n \in 0..(Len(a) - Len(b)) : SubSeq(a, n + 1, n + Len(b)) = b

\* The page is passed over by one of the two continue statements.
Skipped(page) == page.slug = <<>> \/ page.title = <<>> \/ WordSet(page.title) = {}

\* currentScore of a page that is not passed over, times 12 (the overlap
\* score averages two percentages).
Score12(page, text) ==
    LET anchorWordSet == WordSet(text)
        titleWordSet == WordSet(page.title)
        intersection == anchorWordSet \cap titleWordSet
    IN  12 * ( (IF page.title = text THEN 100 ELSE 0)
             + (IF Includes(page.title, text) THEN 60 ELSE 0)
             + (IF Includes(text, page.title) THEN 50 ELSE 0) )
        + (IF intersection # {}
           THEN (600 * Cardinality(intersection)) \div Cardinality(anchorWordSet)
                + (600 * Cardinality(intersection)) \div Cardinality(titleWordSet)
           ELSE 0)

\* The loop over availablePages: [page, score] of the best match so far after
\* the first n pages; page 0 and score -12 stand for null and -1.
RECURSIVE BestMatch(_, _, _)
BestMatch(pages, text, n) ==
    IF n = 0 THEN [page |-> 0, score |-> -12]
    ELSE LET before == BestMatch(pages, text, n - 1)
         IN  IF ~Skipped(pages[n]) /\ Score12(pages[n], text) > before.score
             THEN [page |-> n, score |-> Score12(pages[n], text)]
             ELSE before

\* if (bestMatch && highestScore > 50)
GoodEnough(best) == best.page # 0 /\ best.score > 50 * 12

\* The replacer function for one match.
Replacer(match, slug, text, pages) ==
    IF Known(slug, pages) THEN match
    ELSE LET best == BestMatch(pages, text, Len(pages))
         IN  IF GoodEnough(best)
             THEN <<Open, Text(pages[best.page].slug), Close(text)>>
             ELSE <<Text(text)>>

\* content.replace(placeholderRegex, replacer): the matches from left to
\* right, none overlapping another.
RECURSIVE ReplaceAll(_, _)
ReplaceAll(s, pages) ==
    IF s = <<>> THEN <<>>
    ELSE IF IsMatch(s, 1)
         THEN LET j == SlugEnd(s, 1)
              IN  Replacer(SubSeq(s, 1, j), SubSeq(s, 2, j - 1), s[j].v, pages)
                     \o ReplaceAll(SubSeq(s, j + 1, Len(s)), pages)
         ELSE <<Head(s)>> \o ReplaceAll(Tail(s), pages)

validateAndRepairInternalLinks(content, availablePages) ==
    IF content = <<>> \/ availablePages = <<>>
    THEN content
    ELSE ReplaceAll(content, availablePages)

LinkRepairInit ==
    /\ lContent \in LinkContents
    /\ lPages \in PageLists
    /\ lPc = "call"
    /\ lResult = <<>>

LinkRepairIdle ==
    /\ lContent = <<>> /\ lPages = <<>> /\ lPc = "idle" /\ lResult = <<>>

\* processedContent.content = validateAndRepairInternalLinks(
\*     processedContent.content, existingPages);
RepairCall ==
    /\ lPc = "call"
    /\ lResult' = validateAndRepairInternalLinks(lContent, lPages)
    /\ lPc' = "done"
    /\ UNCHANGED <<lContent, lPages>>

LinkRepairNext ==
    \/ RepairCall /\ UNCHANGED notLinkRepair

\* out is s with every placeholder of a known slug as it is, every other
\* placeholder either given a known slug with its anchor text kept or
\* replaced by its anchor text, and everything else as it is.
RECURSIVE RepairedFrom(_, _, _)
RepairedFrom(s, out, pages) ==
    IF s = <<>> THEN out = <<>>
    ELSE IF IsMatch(s, 1)
    THEN LET j == SlugEnd(s, 1)
             rest == SubSeq(s, j + 1, Len(s))
         IN  IF Known(SubSeq(s, 2, j - 1), pages)
             THEN /\ Len(out) >= j
                  /\ SubSeq(out, 1, j) = SubSeq(s, 1, j)
                  /\ RepairedFrom(rest, SubSeq(out, j + 1, Len(out)), pages)
             ELSE \/ /\ Len(out) >= 3
                     /\ out[1] = Open
                     /\ out[2].k = "text"
                     /\ Known(<<out[2]>>, pages)
                     /\ out[3] = Close(s[j].v)
                     /\ RepairedFrom(rest, SubSeq(out, 4, Len(out)), pages)
                  \/ /\ Len(out) >= 1
                     /\ out[1] = Text(s[j].v)
                     /\ RepairedFrom(rest, SubSeq(out, 2, Len(out)), pages)
    ELSE /\ Len(out) >= 1
         /\ out[1] = Head(s)
         /\ RepairedFrom(Tail(s), Tail(out), pages)

\* C20: with a non-empty page list the pass leaves the placeholders of known
\* slugs and the text outside placeholders as they are, turns every other
\* placeholder into one of a known slug with the same anchor text or into
\* its anchor text, and every placeholder in its output has a known slug.
C20_LinkRepair ==
    (lPc = "done" /\ lPages # <<>>) =>
        /\ RepairedFrom(lContent, lResult, lPages)
        /\ \A i \in 1..Len(lResult) :
              IsMatch(lResult, i)
                 => Known(SubSeq(lResult, i + 1, SlugEnd(lResult, i) - 1), lPages)

\* The score the rule gives a page for an anchor text, times 12: 100 for an
\* equal title, 60 for a title that contains the anchor text, 50 for an
\* anchor text that contains the title, and the average of the two
\* percentages of shared words longer than two characters.
RuleScore12(page, text) ==
    LET shared == WordSet(text) \cap WordSet(page.title)
    IN  12 * ( (IF page.title = text THEN 100 ELSE 0)
             + (IF Includes(page.title, text) THEN 60 ELSE 0)
             + (IF Includes(text, page.title) THEN 50 ELSE 0) )
        + (IF shared # {}
           THEN (600 * Cardinality(shared)) \div Cardinality(WordSet(text))
                + (600 * Cardinality(shared)) \div Cardinality(WordSet(page.title))
           ELSE 0)

\* The content is one placeholder with a slug no page has.
OneUnknownPlaceholder ==
    /\ Len(lContent) = 3
    /\ IsMatch(lContent, 1)
    /\ ~Known(<<lContent[2]>>, lPages)

\* C21: a placeholder of an unknown slug is rewritten to a page's slug exactly
\* when the highest score of a page for its anchor text is above 50; with a
\* highest score of 50 or less it becomes its anchor text.
C21_RepairThreshold ==
    (lPc = "done" /\ lPages # <<>> /\ OneUnknownPlaceholder) =>
        LET text == lContent[3].v
            above == \E n \in 1..Len(lPages) : RuleScore12(lPages[n], text) > 50 * 12
        IN  IF above
            THEN /\ Len(lResult) = 3
                 /\ IsMatch(lResult, 1)
                 /\ Known(<<lResult[2]>>, lPages)
                 /\ lResult[3] = Close(text)
            ELSE lResult = <<Text(text)>>

\* C32: a placeholder of an unknown slug whose anchor text equals the title
\* of a known page, a title of words of one or two characters included, is
\* rewritten to the slug of a known page and never replaced by its text.
C32_ExactTitleRepaired ==
    (/\ lPc = "done" /\ OneUnknownPlaceholder
     /\ \E n \in 1..Len(lPages) : lPages[n].title = lContent[3].v) =>
        /\ Len(lResult) = 3 /\ IsMatch(lResult, 1)
        /\ Known(<<lResult[2]>>, lPages)

\* C30: after a 429 rejection without a Retry-After value the gateway waits
\* from a higher baseline than initialDelay * 2^attempt, the baseline of the
\* delay after a 5xx rejection at the same attempt.
C30_PatientBackoff ==
    [][(/\ gPc = "calling"
        /\ gPc' = "sleeping"
        /\ (gLastErr'.status = 429 \/ StatusCode(gLastErr') = 429)
        /\ RetryAfterHeader(gLastErr') = "")
           => gDelay' > InitialDelay * Pow2(gAttempt)]_vars

(***************************************************************************)
(* enforceInternalLinkQuota: the link quota pass                           *)
(***************************************************************************)
\* Bounds: the longest content, in blocks, and the largest minLinks.
MaxBlocks == 3
MaxMinLinks == 2

\* A content is a sequence of tokens inside a tag pair: a word; QOpen(slug),
\* the text [INTERNAL_LINK slug="slug" text=" ; or QClose, the text "] .
\* Words are separated by single spaces, a space stands before QOpen and
\* after QClose, and none stands after QOpen or before QClose.
Word(w) == [k |-> "word", v |-> w]
QOpen(slug) == [k |-> "open", v |-> slug]
QClose == [k |-> "close", v |-> ""]

\* w.length of the words in use
WordLen(w) == IF w = "and" THEN 3 ELSE 4

Phrase(words) == [n \in 1..Len(words) |-> Word(words[n])]

\* The blocks the contents are put together from: single words, the title of
\* ToolTips, a placeholder of a page outside the lists, a placeholder of
\* ToolTips, and a placeholder whose anchor text holds the title of ToolTips.
ContentBlocks ==
    { <<Word("best")>>, <<Word("tips")>>,
      Phrase(<<"link", "tool", "tips">>),
      <<QOpen("old"), Word("best"), QClose>>,
      <<QOpen("tool-tips"), Word("tips"), QClose>>,
      <<QOpen("old"), Word("best"), Word("link"), Word("tool"), Word("tips"),
        Word("best"), QClose>> }

RECURSIVE Flatten(_)
Flatten(blocks) ==
    IF blocks = <<>> THEN <<>> ELSE Head(blocks) \o Flatten(Tail(blocks))

QuotaContents ==
    {Flatten(bs) : bs \in UNION {[1..n -> ContentBlocks] : n \in 0..MaxBlocks}}

\* Pages of the sitemap; the title of Faq is too short for a candidate.
ToolTips == [slug |-> "tool-tips", title |-> <<"link", "tool", "tips">>]
BestTools == [slug |-> "best-tools", title |-> <<"best", "link", "tool", "tips">>]
LongTitle == [slug |-> "long", title |-> <<"tips", "best", "link", "tool", "tips">>]
Faq == [slug |-> "faq", title |-> <<"and", "tips">>]
QuotaPageLists ==
    {<<>>, <<ToolTips>>, <<Faq, ToolTips, BestTools>>, <<BestTools, ToolTips>>,
     <<LongTitle, ToolTips>>}

\* placeholderRegex matches at token i.
PlaceholderAt(s, i) ==
    /\ s[i].k = "open"
    /\ \E j \in (i + 2)..Len(s) :
          /\ s[j].k = "close"
          /\ \A h \in (i + 1)..(j - 1) : s[h].k = "word"

\* [...content.matchAll(placeholderRegex)].length
ExistingLinks(s) == Cardinality({i \in 1..Len(s) : PlaceholderAt(s, i)})

\* new Set(existingLinks.map(match => match[1])): the regular expression has
\* no group, so match[1] is undefined for every match.
Undefined == "<undefined>"
LinkedSlugs(s) == IF ExistingLinks(s) = 0 THEN {} ELSE {Undefined}

\* v.length of a phrase
RECURSIVE CharLen(_)
CharLen(words) ==
    IF words = <<>> THEN 0
    ELSE IF Len(words) = 1 THEN WordLen(words[1])
    ELSE WordLen(Head(words)) + 1 + CharLen(Tail(words))

\* .filter((v, i, a) => a.indexOf(v) === i && v.length > 10)
RECURSIVE UniqueLong(_, _)
UniqueLong(terms, i) ==
    IF i > Len(terms) THEN <<>>
    ELSE (IF (\A h \in 1..(i - 1) : terms[h] # terms[i]) /\ CharLen(terms[i]) > 10
          THEN <<terms[i]>> ELSE <<>>) \o UniqueLong(terms, i + 1)

\* .sort((a, b) => b.length - a.length): longest first, equal lengths in
\* their order.
RECURSIVE Insert(_, _)
Insert(sorted, t) ==
    IF sorted = <<>> THEN <<t>>
    ELSE IF CharLen(Head(sorted)) >= CharLen(t)
         THEN <<Head(sorted)>> \o Insert(Tail(sorted), t)
         ELSE <<t>> \o sorted
RECURSIVE SortByLength(_)
SortByLength(terms) ==
    IF terms = <<>> THEN <<>>
    ELSE Insert(SortByLength(SubSeq(terms, 1, Len(terms) - 1)), terms[Len(terms)])

\* searchTerms of a page
SearchTerms(title) ==
    SortByLength(UniqueLong(
        <<title>>
        \o (IF Len(title) > 4 THEN <<SubSeq(title, 1, Len(title) - 1)>> ELSE <<>>)
        \o (IF Len(title) > 3 THEN <<Tail(title)>> ELSE <<>>), 1))

\* candidatePages
IsCandidate(p, linkedSlugs) ==
    /\ p.slug # "" /\ p.title # <<>>
    /\ p.slug \notin linkedSlugs
    /\ Len(p.title) > 2
    /\ SearchTerms(p.title) # <<>>

\* searchRegex matches at token i: the term's words, not right after the
\* quote that ends QOpen and not right before the quote that starts QClose.
TermAt(s, term, i) ==
    /\ i + Len(term) - 1 <= Len(s)
    /\ \A n \in 1..Len(term) : s[i + n - 1] = Word(term[n])
    /\ i > 1 => s[i - 1].k # "open"
    /\ i + Len(term) <= Len(s) => s[i + Len(term)].k # "close"

\* The first match of searchRegex: its token index, 0 for none.
FirstMatch(s, term) ==
    IF \E i \in 1..Len(s) : TermAt(s, term, i)
    THEN CHOOSE i \in 1..Len(s) :
             TermAt(s, term, i) /\ \A h \in 1..(i - 1) : ~TermAt(s, term, h)
    ELSE 0

\* newContent.replace(searchRegex, ...) with the first match replaced by the
\* new placeholder.
Inject(s, slug, term, i) ==
    SubSeq(s, 1, i - 1) \o <<QOpen(slug)>> \o Phrase(term) \o <<QClose>>
        \o SubSeq(s, i + Len(term), Len(s))

\* The loop over page.searchTerms: the content after the first term that
\* matches, or the content as it is.
RECURSIVE PlaceLink(_, _, _, _)
PlaceLink(s, slug, terms, n) ==
    IF n > Len(terms) THEN s
    ELSE IF FirstMatch(s, terms[n]) # 0
         THEN Inject(s, slug, terms[n], FirstMatch(s, terms[n]))
         ELSE PlaceLink(s, slug, terms, n + 1)

\* The loop over candidatePages.
RECURSIVE QuotaLoop(_, _, _, _, _)
QuotaLoop(pages, linkedSlugs, newContent, deficit, newlyLinkedSlugs) ==
    IF pages = <<>> \/ deficit <= 0 THEN newContent
    ELSE LET page == Head(pages)
             placed == PlaceLink(newContent, page.slug, SearchTerms(page.title), 1)
         IN  IF ~IsCandidate(page, linkedSlugs) \/ page.slug \in newlyLinkedSlugs
                \/ placed = newContent
             THEN QuotaLoop(Tail(pages), linkedSlugs, newContent, deficit,
                            newlyLinkedSlugs)
             ELSE QuotaLoop(Tail(pages), linkedSlugs, placed, deficit - 1,
                            newlyLinkedSlugs \cup {page.slug})

enforceInternalLinkQuota(content, availablePages, minLinks) ==
    IF availablePages = <<>> THEN content
    ELSE IF minLinks - ExistingLinks(content) <= 0 THEN content
    ELSE QuotaLoop(availablePages, LinkedSlugs(content), content,
                   minLinks - ExistingLinks(content), {})

LinkQuotaInit ==
    /\ qContent \in QuotaContents
    /\ qPages \in QuotaPageLists
    /\ qMin \in 0..MaxMinLinks
    /\ qPc = "call"
    /\ qResult = <<>>

LinkQuotaIdle ==
    /\ qContent = <<>> /\ qPages = <<>> /\ qMin = 0 /\ qPc = "idle" /\ qResult = <<>>

\* processedContent.content = enforceInternalLinkQuota(processedContent.content,
\*     existingPages, processedContent.primaryKeyword, MIN_INTERNAL_LINKS);
QuotaCall ==
    /\ qPc = "call"
    /\ qResult' = enforceInternalLinkQuota(qContent, qPages, qMin)
    /\ qPc' = "done"
    /\ UNCHANGED <<qContent, qPages, qMin>>

LinkQuotaNext ==
    \/ QuotaCall /\ UNCHANGED notLinkQuota

\* Token i of s lies in the anchor text of a placeholder.
InAnchor(s, i) ==
    \E o \in 1..(i - 1) : s[o].k = "open" /\ \A h \in (o + 1)..i : s[h].k = "word"

\* The term stands in s as plain text, outside every placeholder.
OccursPlain(s, term) ==
    \E i \in 1..Len(s) :
        /\ i + Len(term) - 1 <= Len(s)
        /\ \A n \in 1..Len(term) : s[i + n - 1] = Word(term[n]) /\ ~InAnchor(s, i + n - 1)

\* The slugs of the eligible candidate pages that have a search phrase
\* standing in s as plain text.
MatchableSlugs(s, pages) ==
    { pages[n].slug : n \in { m \in 1..Len(pages) :
          /\ Len(pages[m].title) > 2
          /\ \A i \in 1..Len(s) : PlaceholderAt(s, i) => s[i].v # pages[m].slug
          /\ \E t \in 1..Len(SearchTerms(pages[m].title)) :
                OccursPlain(s, SearchTerms(pages[m].title)[t]) } }

\* The number of placeholder openings with the slug in s.
Openings(s, slug) == Cardinality({i \in 1..Len(s) : s[i] = QOpen(slug)})

\* C22: with e placeholders in the content, e >= minLinks gives the content
\* back unchanged; with e < minLinks and at least minLinks - e eligible
\* candidate pages that have a search phrase in the plain text the result has
\* at least minLinks placeholders; at most minLinks - e placeholders are
\* injected, and at most one for a page.
C22_LinkQuota ==
    qPc = "done" =>
        LET e == ExistingLinks(qContent)
            slugs == {qPages[n].slug : n \in 1..Len(qPages)}
            injected == Cardinality({i \in 1..Len(qResult) : qResult[i].k = "open"})
                        - Cardinality({i \in 1..Len(qContent) : qContent[i].k = "open"})
        IN  /\ e >= qMin => qResult = qContent
            /\ (e < qMin /\ Cardinality(MatchableSlugs(qContent, qPages)) >= qMin - e)
                  => ExistingLinks(qResult) >= qMin
            /\ e < qMin => injected <= qMin - e
            /\ \A slug \in slugs : Openings(qResult, slug) - Openings(qContent, slug) <= 1

\* C33: every placeholder the quota pass injects targets a page of the list
\* with a title of several words that no placeholder of the content targeted
\* before the pass, and no page is injected twice.
C33_UnlinkedCandidates ==
    qPc = "done" =>
        \A slug \in {qResult[i].v : i \in {h \in 1..Len(qResult) : qResult[h].k = "open"}} :
            Openings(qResult, slug) > Openings(qContent, slug) =>
                /\ \E n \in 1..Len(qPages) : qPages[n].slug = slug /\ Len(qPages[n].title) > 1
                /\ \A i \in 1..Len(qContent) : PlaceholderAt(qContent, i) => qContent[i].v # slug
                /\ Openings(qResult, slug) = Openings(qContent, slug) + 1

(***************************************************************************)
(* extractJson: JSON out of a model response                               *)
(***************************************************************************)
\* A text is a sequence of characters; a code fence (three backquotes) and
\* the word json after it each stand as one element.
Fence == "fence"
IsSpace(c) == c = " "

\* The first index from i on that holds no white space.
RECURSIVE SkipWs(_, _)
SkipWs(s, i) == IF i <= Len(s) /\ IsSpace(s[i]) THEN SkipWs(s, i + 1) ELSE i

\* JSON.parse: each Parse operator gives the index after the text it
\* accepted from index i, 0 when it accepts none.
RECURSIVE ParseString(_, _)
ParseString(s, j) ==
    IF j > Len(s) THEN 0
    ELSE IF s[j] = "\"" THEN j + 1
    ELSE IF s[j] = "\\"
         THEN IF j + 1 <= Len(s) /\ s[j + 1] \in {"\"", "\\"}
              THEN ParseString(s, j + 2) ELSE 0
    ELSE ParseString(s, j + 1)

RECURSIVE ParseNumber(_, _)
ParseNumber(s, j) == IF j <= Len(s) /\ s[j] = "1" THEN ParseNumber(s, j + 1) ELSE j

RECURSIVE ParseValue(_, _)
RECURSIVE ParseMembers(_, _)
RECURSIVE ParseElements(_, _)
ParseValue(s, i) ==
    IF i > Len(s) THEN 0
    ELSE IF s[i] = "{"
         THEN LET j == SkipWs(s, i + 1)
              IN  IF j <= Len(s) /\ s[j] = "}" THEN j + 1 ELSE ParseMembers(s, j)
    ELSE IF s[i] = "["
         THEN LET j == SkipWs(s, i + 1)
              IN  IF j <= Len(s) /\ s[j] = "]" THEN j + 1 ELSE ParseElements(s, j)
    ELSE IF s[i] = "\"" THEN ParseString(s, i + 1)
    ELSE IF s[i] = "1" THEN ParseNumber(s, i + 1)
    ELSE 0

ParseMembers(s, j) ==
    IF j > Len(s) \/ s[j] # "\"" THEN 0
    ELSE LET k == ParseString(s, j + 1)
             c == SkipWs(s, k)
         IN  IF k = 0 \/ c > Len(s) \/ s[c] # ":" THEN 0
             ELSE LET v == ParseValue(s, SkipWs(s, c + 1))
                      m == SkipWs(s, v)
                  IN  IF v = 0 \/ m > Len(s) THEN 0
                      ELSE IF s[m] = "," THEN ParseMembers(s, SkipWs(s, m + 1))
                      ELSE IF s[m] = "}" THEN m + 1
                      ELSE 0

ParseElements(s, j) ==
    LET v == ParseValue(s, j)
        m == SkipWs(s, v)
    IN  IF v = 0 \/ m > Len(s) THEN 0
        ELSE IF s[m] = "," THEN ParseElements(s, SkipWs(s, m + 1))
        ELSE IF s[m] = "]" THEN m + 1
        ELSE 0

\* JSON.parse(s) does not throw.
IsJson(s) ==
    LET v == ParseValue(s, SkipWs(s, 1))
    IN  v # 0 /\ SkipWs(s, v) = Len(s) + 1

\* .replace(/^```(?:json)?\s*/, '')
StripOpeningFence(s) ==
    IF s # <<>> /\ s[1] = Fence
    THEN LET j == IF Len(s) >= 2 /\ s[2] = "json" THEN 3 ELSE 2
         IN  SubSeq(s, SkipWs(s, j), Len(s))
    ELSE s

\* The part of s that is left when the white space at its end is dropped.
RECURSIVE TrimEnd(_)
TrimEnd(s) ==
    IF s # <<>> /\ IsSpace(s[Len(s)]) THEN TrimEnd(SubSeq(s, 1, Len(s) - 1)) ELSE s

\* .replace(/\s*```$/, '')
StripClosingFence(s) ==
    IF s # <<>> /\ s[Len(s)] = Fence THEN TrimEnd(SubSeq(s, 1, Len(s) - 1)) ELSE s

\* .trim()
TrimText(s) == TrimEnd(SubSeq(s, SkipWs(s, 1), Len(s)))

\* .replace(/```json\s*/gi, '')
RECURSIVE RemoveJsonFences(_, _)
RemoveJsonFences(s, i) ==
    IF i > Len(s) THEN <<>>
    ELSE IF s[i] = Fence /\ i + 1 <= Len(s) /\ s[i + 1] = "json"
         THEN RemoveJsonFences(s, SkipWs(s, i + 2))
         ELSE <<s[i]>> \o RemoveJsonFences(s, i + 1)

\* .replace(/```\s*/g, '')
RECURSIVE RemoveFences(_, _)
RemoveFences(s, i) ==
    IF i > Len(s) THEN <<>>
    ELSE IF s[i] = Fence THEN RemoveFences(s, SkipWs(s, i + 1))
         ELSE <<s[i]>> \o RemoveFences(s, i + 1)

\* A comma stands at i, and after white space a closing bracket.
CommaBeforeCloser(s, i) ==
    /\ s[i] = ","
    /\ SkipWs(s, i + 1) <= Len(s)
    /\ s[SkipWs(s, i + 1)] \in {"}", "]"}

\* .replace(/,(\s*[}\]])/g, '$1')
RECURSIVE RemoveTrailingCommas(_, _)
RemoveTrailingCommas(s, i) ==
    IF i > Len(s) THEN <<>>
    ELSE IF CommaBeforeCloser(s, i)
         THEN SubSeq(s, i + 1, SkipWs(s, i + 1))
                  \o RemoveTrailingCommas(s, SkipWs(s, i + 1) + 1)
         ELSE <<s[i]>> \o RemoveTrailingCommas(s, i + 1)

\* cleanedText
CleanedText(text) ==
    RemoveTrailingCommas(
        RemoveFences(
            RemoveJsonFences(TrimText(StripClosingFence(StripOpeningFence(text))), 1), 1), 1)

\* s.indexOf(c), counted from 1; 0 stands for -1.
IndexOf(s, c) ==
    IF \E i \in 1..Len(s) : s[i] = c
    THEN CHOOSE i \in 1..Len(s) : s[i] = c /\ \A h \in 1..(i - 1) : s[h] # c
    ELSE 0

\* startIndex
StartIndex(s) ==
    LET firstBracket == IndexOf(s, "{")
        firstSquare == IndexOf(s, "[")
    IN  IF firstBracket = 0 THEN firstSquare
        ELSE IF firstSquare = 0 THEN firstBracket
        ELSE IF firstBracket < firstSquare THEN firstBracket ELSE firstSquare

EndChar(startChar) == IF startChar = "{" THEN "}" ELSE "]"

\* The for loop over potentialJson from index i: endIndex (0 for -1) and
\* balance when it ends.
RECURSIVE Scan(_, _, _, _, _)
Scan(p, i, balance, inString, escapeNext) ==
    IF i > Len(p) THEN [endIndex |-> 0, balance |-> balance]
    ELSE IF escapeNext THEN Scan(p, i + 1, balance, inString, FALSE)
    ELSE IF p[i] = "\\" THEN Scan(p, i + 1, balance, inString, TRUE)
    ELSE LET nowInString == IF p[i] = "\"" THEN ~inString ELSE inString
             nowBalance == IF nowInString THEN balance
                           ELSE IF p[i] = p[1] THEN balance + 1
                           ELSE IF p[i] = EndChar(p[1]) THEN balance - 1
                           ELSE balance
         IN  IF ~nowInString /\ nowBalance = 0
             THEN [endIndex |-> i, balance |-> 0]
             ELSE Scan(p, i + 1, nowBalance, nowInString, FALSE)

\* endChar.repeat(balance)
RECURSIVE Repeat(_, _)
Repeat(c, n) == IF n <= 0 THEN <<>> ELSE <<c>> \o Repeat(c, n - 1)

\* jsonCandidate
JsonCandidate(potentialJson) ==
    LET end == Scan(potentialJson, 2, 1, FALSE, FALSE)
    IN  IF end.endIndex # 0 THEN SubSeq(potentialJson, 1, end.endIndex)
        ELSE potentialJson \o Repeat(EndChar(potentialJson[1]), end.balance)

\* jsonCandidate.replace(/,(?=\s*[}\]])/g, '')
RECURSIVE Repaired(_, _)
Repaired(s, i) ==
    IF i > Len(s) THEN <<>>
    ELSE (IF CommaBeforeCloser(s, i) THEN <<>> ELSE <<s[i]>>) \o Repaired(s, i + 1)

Returned(s) == [kind |-> "returned", text |-> s]
Thrown == [kind |-> "thrown", text |-> <<>>]

\* The try blocks at the end: the candidate when it parses, the repaired
\* candidate when that parses, an Error otherwise.
ParseOrRepairUnchecked(jsonCandidate) == Returned(jsonCandidate)
ParseOrRepair(jsonCandidate) ==
    IF IsJson(jsonCandidate) THEN Returned(jsonCandidate)
    ELSE IF IsJson(Repaired(jsonCandidate, 1)) THEN Returned(Repaired(jsonCandidate, 1))
    ELSE Thrown

extractJson(text) ==
    IF text = <<>> THEN Thrown
    ELSE IF IsJson(text) THEN Returned(text)
    ELSE LET cleanedText == CleanedText(text)
         IN  IF StartIndex(cleanedText) = 0 THEN Thrown
             ELSE ParseOrRepair(JsonCandidate(
                      SubSeq(cleanedText, StartIndex(cleanedText), Len(cleanedText))))

\* JSON objects and arrays of a response:
\*   {"a":1}  {"a":[1,1]}  [[1],1]  {"a":{"a":1}}  {"a":"}"}  ["]"]
\*   ["a,]"]  {"a":"\""}  ["\\"]  {"a": 1}
JsonBodies ==
    { <<"{", "\"", "a", "\"", ":", "1", "}">>,
      <<"{", "\"", "a", "\"", ":", "[", "1", ",", "1", "]", "}">>,
      <<"[", "[", "1", "]", ",", "1", "]">>,
      <<"{", "\"", "a", "\"", ":", "{", "\"", "a", "\"", ":", "1", "}", "}">>,
      <<"{", "\"", "a", "\"", ":", "\"", "}", "\"", "}">>,
      <<"[", "\"", "]", "\"", "]">>,
      <<"[", "\"", "a", ",", "]", "\"", "]">>,
      <<"{", "\"", "a", "\"", ":", "\"", "\\", "\"", "\"", "}">>,
      <<"[", "\"", "\\", "\\", "\"", "]">>,
      <<"{", "\"", "a", "\"", ":", " ", "1", "}">> }

\* What stands before and after the JSON in a response: nothing, prose, a
\* code fence, white space; and texts that hold no JSON at all.
NoiseBefore == {<<>>, <<"a", " ">>, <<Fence, "json", " ">>, <<" ", Fence, " ">>}
NoiseAfter == {<<>>, <<" ", "a">>, <<" ", Fence>>, <<",">>}
OtherTexts == {<<>>, <<"a">>, <<"1">>, <<"\"", "a", "\"">>, <<"[", "1", ",", "]">>,
               <<"{", "a", "}">>}

\* The responses: a body, whole or cut off after some characters, in noise.
Responses ==
    OtherTexts \cup
    UNION { { before \o SubSeq(body, 1, k) \o after :
                before \in NoiseBefore, after \in NoiseAfter, k \in 1..Len(body) } :
            body \in JsonBodies }

ExtractInit ==
    /\ eText \in Responses
    /\ ePc = "call"
    /\ eResult = [kind |-> "none", text |-> <<>>]

ExtractIdle ==
    /\ eText = <<>> /\ ePc = "idle" /\ eResult = [kind |-> "none", text |-> <<>>]

\* const parsedJson = JSON.parse(extractJson(responseText!));
ExtractCall ==
    /\ ePc = "call"
    /\ eResult' = extractJson(eText)
    /\ ePc' = "done"
    /\ UNCHANGED eText

ExtractNext ==
    \/ ExtractCall /\ UNCHANGED notExtract

\* C23: every string extractJson returns parses as JSON, a text that parses
\* as JSON is returned as it is, and extractJson of a returned string returns
\* that string.
C23_ExtractValid ==
    ePc = "done" =>
        /\ eResult.kind \in {"returned", "thrown"}
        /\ eResult.kind = "returned" =>
              IsJson(eResult.text) /\ extractJson(eResult.text) = eResult
        /\ IsJson(eText) => eResult = Returned(eText)

C23_Witness ==
    /\ ePc = "done" /\ eResult.kind = "returned"
    /\ ~IsJson(eText) /\ eResult.text # eText

\* The closing brackets a cut-off response can lack.
ClosingSeqs ==
    {<<a>> : a \in {"}", "]"}} \cup {<<a, b>> : a \in {"}", "]"}, b \in {"}", "]"}}

\* The text is a JSON object or array that lacks only its closing brackets.
Truncated(text) ==
    /\ text # <<>> /\ text[1] \in {"{", "["}
    /\ \E closers \in ClosingSeqs : IsJson(text \o closers)

\* C24: for a response cut off inside its open structures, of one kind or
\* mixed, extractJson returns a string that parses as JSON.
C24_TruncationRepair ==
    (ePc = "done" /\ Truncated(eText)) =>
        eResult.kind = "returned" /\ IsJson(eResult.text)

\* C25: for a JSON object or array in leading prose, code fences and trailing
\* text, with brackets, commas before closing brackets and escaped quotes in
\* its strings, extractJson returns exactly the text of the JSON value.
C25_StringAware ==
    ePc = "done" =>
        \A before \in NoiseBefore, after \in NoiseAfter, body \in JsonBodies :
            eText = before \o body \o after => eResult = Returned(body)

(***************************************************************************)
(* enforceUniqueVideoEmbeds: the duplicate video pass                      *)
(***************************************************************************)
\* Bound: the longest content, in elements.
MaxElements == 3

\* A content is a sequence of elements: a text, or an iframe tag that
\* iframeRegex matches, with the attribute values that stand before src and
\* the identifier after /embed/.
TextElement(t) == [k |-> "text", attrs |-> <<>>, id |-> t]
Iframe(attrs, id) == [k |-> "iframe", attrs |-> attrs, id |-> id]

Elements ==
    { TextElement("p"), Iframe(<<>>, "abc123"), Iframe(<<>>, "xyz789"),
      Iframe(<<"abc123">>, "abc123") }
VideoContents == UNION {[1..n -> Elements] : n \in 0..MaxElements}

\* youtubeVideos: undefined or a list of videos; "" stands for a missing
\* videoId.
NoVideos == <<>>
VideoLists ==
    { NoVideos, <<"abc123">>, <<"abc123", "xyz789">>, <<"abc123", "abc123">>,
      <<"xyz789", "abc123">>, <<"abc123", "">>, <<"xyz789", "xyz789", "abc123">> }

\* The indexes of [...content.matchAll(iframeRegex)], in order.
RECURSIVE Matches(_, _)
Matches(content, i) ==
    IF i > Len(content) THEN <<>>
    ELSE (IF content[i].k = "iframe" THEN <<i>> ELSE <<>>) \o Matches(content, i + 1)

\* videoIdsInContent.every(id => id === firstVideoId)
IsDuplicate(content, matches) ==
    \A n \in 1..Len(matches) : content[matches[n]].id = content[matches[1]].id

\* secondMatch[0].replace(duplicateId, secondVideo.videoId): the first
\* occurrence of duplicateId in the tag is replaced, in the attributes before
\* src or in the identifier.
CorrectedIframe(tag, duplicateId, videoId) ==
    IF \E a \in 1..Len(tag.attrs) : tag.attrs[a] = duplicateId
    THEN LET a == CHOOSE a \in 1..Len(tag.attrs) :
                      /\ tag.attrs[a] = duplicateId
                      /\ \A h \in 1..(a - 1) : tag.attrs[h] # duplicateId
         IN  [tag EXCEPT !.attrs[a] = videoId]
    ELSE [tag EXCEPT !.id = videoId]

enforceUniqueVideoEmbeds(content, youtubeVideos) ==
    IF Len(youtubeVideos) < 2 THEN content
    ELSE LET matches == Matches(content, 1)
         IN  IF Len(matches) < 2 THEN content
             ELSE IF /\ IsDuplicate(content, matches)
                     /\ youtubeVideos[2] # ""
                     /\ youtubeVideos[2] # content[matches[1]].id
                  THEN [content EXCEPT ![matches[2]] =
                           CorrectedIframe(content[matches[2]], content[matches[1]].id,
                                           youtubeVideos[2])]
                  ELSE content

VideoInit ==
    /\ vContent \in VideoContents
    /\ vVideos \in VideoLists
    /\ vPc = "call"
    /\ vResult = <<>>

VideoIdle ==
    /\ vContent = <<>> /\ vVideos = <<>> /\ vPc = "idle" /\ vResult = <<>>

\* if (youtubeVideos) {
\*     processedContent.content = enforceUniqueVideoEmbeds(processedContent.content, youtubeVideos);
\* }
VideoCall ==
    /\ vPc = "call"
    /\ vResult' = IF vVideos = NoVideos THEN vContent
                  ELSE enforceUniqueVideoEmbeds(vContent, vVideos)
    /\ vPc' = "done"
    /\ UNCHANGED <<vContent, vVideos>>

VideoNext ==
    \/ VideoCall /\ UNCHANGED notVideo

\* C26: with two or more embeds that all have one identifier and a second
\* intended video of another identifier, the identifier of the second embed
\* is replaced and nothing else; in every other case the content is returned
\* unchanged; and a second application changes nothing.
C26_UniqueVideoEmbeds ==
    vPc = "done" =>
        LET embeds == Matches(vContent, 1)
        IN  /\ IF /\ Len(embeds) >= 2
                  /\ \A n \in 1..Len(embeds) : vContent[embeds[n]].id = vContent[embeds[1]].id
                  /\ Len(vVideos) >= 2
                  /\ vVideos[2] \notin {"", vContent[embeds[1]].id}
               THEN vResult = [vContent EXCEPT ![embeds[2]].id = vVideos[2]]
               ELSE vResult = vContent
            /\ enforceUniqueVideoEmbeds(vResult, vVideos) = vResult

(***************************************************************************)
(* publishItem and BulkPublishModal.handleStartPublishing                  *)
(***************************************************************************)
\* Bound: the longest imageDetails.
MaxImageDetails == 2

\* imageDetails: for each image whether it has a generatedImageSrc.
ImageDetailLists == UNION {[1..n -> BOOLEAN] : n \in 0..MaxImageDetails}

\* The items the modal can be given: with or without originalUrl, with or
\* without generatedContent; content holds the images whose source has been
\* replaced by a media URL, none in a generated item.
PublishItems ==
    [originalUrl : BOOLEAN,
     generatedContent : [present : BOOLEAN, content : {{}}, imageDetails : ImageDetailLists],
     status : {"done"}, statusText : {"Completed"}]

\* What the server answers: to a media upload, to the search by slug and to
\* the submission of the post. "network" is a fetch that throws a TypeError.
MediaOutcomes == {"ok", "401", "403", "500", "network"}
LookupOutcomes == {"found", "none", "401", "403", "500", "network"}
SubmitOutcomes == {"ok", "401", "403", "500", "network"}
FoundPostId == 7

\* A request of publishItem with what came of it.
Request(req, img, outcome) ==
    [req |-> req, img |-> img, ok |-> outcome \in {"ok", "found", "none"},
     outcome |-> outcome]
NotReturned == [success |-> FALSE, message |-> "pending"]
Failure(message) == [success |-> FALSE, message |-> message]
Success == [success |-> TRUE, message |-> "Successfully published or updated"]

\* The next imageDetail from index i on that has a generatedImageSrc; the
\* length plus one when there is none.
RECURSIVE NextImage(_, _)
NextImage(imageDetails, i) ==
    IF i > Len(imageDetails) \/ imageDetails[i] THEN i
    ELSE NextImage(imageDetails, i + 1)

\* mediaResponse.ok
UploadAlwaysAccepted(outcome) == TRUE
UploadAccepted(outcome) == outcome = "ok"

\* The catch block of the upload loop.
MediaFailure(outcome) ==
    IF outcome = "network" THEN Failure("CORS")
    ELSE IF outcome = "401" THEN Failure("AUTH")
    ELSE Failure("Media upload failed")

\* Where publishItem goes after the upload loop.
AfterUploads(item) == IF item.originalUrl THEN "lookup" ELSE "submit"

\* handlePublishSuccess
handlePublishSuccessMarking(store) ==
    [store EXCEPT !.existingPages = "updated", !.items.statusText = "Published"]
handlePublishSuccess(store) == [store EXCEPT !.existingPages = "updated"]

PublishInit ==
    /\ uStore \in [items : PublishItems, existingPages : {"idle"}]
    /\ uCfg \in BOOLEAN
    /\ uPublishState = "queued"
    /\ uPc = "queued"
    /\ uImg = 0
    /\ uContent = {}
    /\ uPostId = 0
    /\ uLog = <<>>
    /\ uResult = NotReturned

PublishIdle ==
    /\ uStore = [items |-> [originalUrl |-> FALSE,
                            generatedContent |-> [present |-> FALSE, content |-> {},
                                                  imageDetails |-> <<>>],
                            status |-> "done", statusText |-> "Completed"],
                 existingPages |-> "idle"]
    /\ uCfg = FALSE
    /\ uPublishState = "none"
    /\ uPc = "idle"
    /\ uImg = 0 /\ uContent = {} /\ uPostId = 0 /\ uLog = <<>> /\ uResult = NotReturned

\* The processor up to the first await of publishItem: the publishState of
\* the item, the two early returns, the local content and the first image.
StartPublishing ==
    /\ uPc = "queued"
    /\ uPublishState' = "publishing"
    /\ LET item == uStore.items
           first == NextImage(item.generatedContent.imageDetails, 1)
       IN  IF ~uCfg
           THEN /\ uResult' = Failure("WordPress URL, Username, and Application Password are required.")
                /\ uPc' = "returned"
                /\ UNCHANGED <<uImg, uContent>>
           ELSE IF ~item.generatedContent.present
           THEN /\ uResult' = Failure("No content available to publish.")
                /\ uPc' = "returned"
                /\ UNCHANGED <<uImg, uContent>>
           ELSE /\ uContent' = item.generatedContent.content
                /\ uImg' = first
                /\ uPc' = IF first <= Len(item.generatedContent.imageDetails)
                          THEN "media" ELSE AfterUploads(item)
                /\ UNCHANGED uResult
    /\ UNCHANGED <<uStore, uCfg, uPostId, uLog>>

\* fetch(imageDetail.generatedImageSrc) throws: no upload is sent.
BlobFails ==
    /\ uPc = "media"
    /\ uLog' = Append(uLog, Request("blob", uImg, "network"))
    /\ uResult' = MediaFailure("network")
    /\ uPc' = "returned"
    /\ UNCHANGED <<uStore, uCfg, uPublishState, uImg, uContent, uPostId>>

\* One round of the upload loop: the POST to /media and what follows it.
MediaUpload(outcome) ==
    /\ uPc = "media"
    /\ uLog' = Append(uLog, Request("media", uImg, outcome))
    /\ LET item == uStore.items
           next == NextImage(item.generatedContent.imageDetails, uImg + 1)
       IN  IF UploadAccepted(outcome)
           THEN /\ uContent' = uContent \cup {uImg}
                /\ uImg' = next
                /\ uPc' = IF next <= Len(item.generatedContent.imageDetails)
                          THEN "media" ELSE AfterUploads(item)
                /\ UNCHANGED uResult
           ELSE /\ uResult' = MediaFailure(outcome)
                /\ uPc' = "returned"
                /\ UNCHANGED <<uImg, uContent>>
    /\ UNCHANGED <<uStore, uCfg, uPublishState, uPostId>>

\* 2. Find Post ID for updates: the GET of /posts?slug= and what follows it.
PostLookup(outcome) ==
    /\ uPc = "lookup"
    /\ uLog' = Append(uLog, Request("lookup", 0, outcome))
    /\ IF outcome \in {"found", "none"}
       THEN /\ uPostId' = IF outcome = "found" THEN FoundPostId ELSE 0
            /\ uPc' = "submit"
            /\ UNCHANGED uResult
       ELSE /\ uResult' = Failure("Failed to find original post")
            /\ uPc' = "returned"
            /\ UNCHANGED uPostId
    /\ UNCHANGED <<uStore, uCfg, uPublishState, uImg, uContent>>

\* 4. Create or Update Post: the POST to the endpoint and what follows it.
PostSubmit(outcome) ==
    /\ uPc = "submit"
    /\ uLog' = Append(uLog, Request(IF uPostId # 0 THEN "update" ELSE "create", uPostId,
                                    outcome))
    /\ uResult' = IF outcome = "ok" THEN Success
                  ELSE IF outcome = "network" THEN Failure("CORS")
                  ELSE Failure("WP Error")
    /\ uPc' = "returned"
    /\ UNCHANGED <<uStore, uCfg, uPublishState, uImg, uContent, uPostId>>

\* The processor after publishItem returned.
PublishHandled ==
    /\ uPc = "returned"
    /\ uPublishState' = IF uResult.success THEN "success" ELSE "error"
    /\ uStore' = IF uResult.success /\ uStore.items.originalUrl
                 THEN handlePublishSuccess(uStore) ELSE uStore
    /\ uPc' = "handled"
    /\ UNCHANGED <<uCfg, uImg, uContent, uPostId, uLog, uResult>>

PublishNext ==
    \/ StartPublishing /\ UNCHANGED notPublish
    \/ BlobFails /\ UNCHANGED notPublish
    \/ (\E outcome \in MediaOutcomes : MediaUpload(outcome)) /\ UNCHANGED notPublish
    \/ (\E outcome \in LookupOutcomes : PostLookup(outcome)) /\ UNCHANGED notPublish
    \/ (\E outcome \in SubmitOutcomes : PostSubmit(outcome)) /\ UNCHANGED notPublish
    \/ PublishHandled /\ UNCHANGED notPublish

\* The indexes of the imageDetails that have a generatedImageSrc.
WithPayload == {n \in 1..Len(uStore.items.generatedContent.imageDetails) :
                    uStore.items.generatedContent.imageDetails[n]}
PostRequests == {"lookup", "create", "update"}

\* C27: a request for the post (lookup, create, update) is issued only after
\* every image with a generatedImageSrc has been uploaded, in order and with
\* success; after a failed upload no request for the post is issued and
\* publishItem returns a failure.
C27_UploadsFirst ==
    /\ \A i \in 1..Len(uLog) : uLog[i].req \in PostRequests =>
          /\ {uLog[h].img : h \in {g \in 1..(i - 1) : uLog[g].req = "media"}} = WithPayload
          /\ \A h \in 1..(i - 1) : uLog[h].req \in {"media", "blob"} => uLog[h].ok
    /\ \A h, i \in 1..Len(uLog) :
          (h < i /\ uLog[h].req = "media" /\ uLog[i].req = "media") => uLog[h].img < uLog[i].img
    /\ (\E h \in 1..Len(uLog) : uLog[h].req \in {"media", "blob"} /\ ~uLog[h].ok) =>
          /\ uPc \in {"returned", "handled"} /\ ~uResult.success
          /\ uLog[Len(uLog)].req \in {"media", "blob"}

C27_Witness ==
    /\ Len(uLog) = 3 /\ uLog[1].req = "media" /\ uLog[2].req = "media"
    /\ uLog[3].req = "create" /\ uResult.success

\* C28: every submission of the post follows a search by slug, for every
\* item; it is an update exactly when the search found a post and a create
\* exactly when it found none, and none is sent when the search failed.
C28_LookupBeforeSubmit ==
    /\ \A i \in 1..Len(uLog) : uLog[i].req \in {"create", "update"} =>
          /\ i > 1 /\ uLog[i - 1].req = "lookup" /\ uLog[i - 1].ok
          /\ uLog[i].req = "update" <=> uPostId # 0
    /\ \A i \in 1..Len(uLog) : (uLog[i].req = "lookup" /\ ~uLog[i].ok) => i = Len(uLog)

\* C29: no step of a publish attempt, whatever its outcome, changes the
\* generatedContent, the status or the status text of the item in the items
\* collection.
C29_ItemUntouched ==
    [][/\ uStore'.items.generatedContent = uStore.items.generatedContent
       /\ uStore'.items.status = uStore.items.status
       /\ uStore'.items.statusText = uStore.items.statusText]_vars

C29_Witness ==
    /\ uPc = "handled" /\ uResult.success /\ uStore.existingPages = "updated"
    /\ uContent # uStore.items.generatedContent.content

\* C35: a publish attempt whose media upload, post lookup or post submission
\* was answered with 401 or 403 returns the authentication diagnosis, and no
\* other failure returns it.
C35_AuthDiagnosis ==
    (uPc \in {"returned", "handled"} /\ uLog # <<>>) =>
        (uLog[Len(uLog)].outcome \in {"401", "403"} <=> uResult = Failure("AUTH"))

(***************************************************************************)
(* generateContent, Stage 3: the order of the parts of the body            *)
(***************************************************************************)
\* Bound: the longest outline.
MaxOutline == 8

Part(k, n) == [k |-> k, n |-> n]

AssembleInit ==
    /\ aOutline \in 0..MaxOutline
    /\ aImages \in [1..2 -> BOOLEAN]
    /\ aVideos \in 0..2
    /\ aStop = FALSE
    /\ aI = 0
    /\ aPc = "stage3"
    /\ aParts = <<>>

AssembleIdle ==
    /\ aOutline = 0 /\ aImages = [n \in 1..2 |-> FALSE] /\ aVideos = 0
    /\ aStop = FALSE /\ aI = 0 /\ aPc = "idle" /\ aParts = <<>>

\* The pushes before the loop: introduction, key takeaways and the
\* placeholder of imageDetails[0].
BeginParts ==
    /\ aPc = "stage3"
    /\ aParts' = <<Part("introduction", 0), Part("takeaways", 0)>>
                     \o (IF aImages[1] THEN <<Part("image", 1)>> ELSE <<>>)
    /\ aPc' = "sections"
    /\ UNCHANGED <<aOutline, aImages, aVideos, aStop, aI>>

\* What one round of the loop pushes after the section of index i (from 0).
VideoAfterShifted(i, videos) ==
    IF i = 3 /\ videos >= 1 THEN <<Part("video", 1)>>
    ELSE IF i = 6 /\ videos >= 2 THEN <<Part("video", 2)>>
    ELSE <<>>
VideoAfter(i, videos) ==
    IF i = 2 /\ videos >= 1 THEN <<Part("video", 1)>>
    ELSE IF i = 6 /\ videos >= 2 THEN <<Part("video", 2)>>
    ELSE <<>>
ImageAfter(i, images) == IF i = 4 /\ images[2] THEN <<Part("image", 2)>> ELSE <<>>

\* One round of the loop over the outline whose callAI resolves.
SectionWritten ==
    /\ aPc = "sections" /\ aI < aOutline /\ ~aStop
    /\ aParts' = aParts \o <<Part("section", aI + 1)>>
                     \o VideoAfter(aI, aVideos) \o ImageAfter(aI, aImages)
    /\ aI' = aI + 1
    /\ UNCHANGED <<aOutline, aImages, aVideos, aStop, aPc>>

\* The callAI of a round rejects: the catch block of the item takes over.
SectionFails ==
    /\ aPc = "sections" /\ aI < aOutline /\ ~aStop
    /\ aPc' = "error"
    /\ UNCHANGED <<aOutline, aImages, aVideos, aStop, aI, aParts>>

\* handleStopGeneration while the run is in Stage 3.
StopDuringSections ==
    /\ aPc = "sections" /\ ~aStop
    /\ aStop' = TRUE
    /\ UNCHANGED <<aOutline, aImages, aVideos, aI, aPc, aParts>>

\* The loop is left: by the break of the stop check, which the check after
\* the loop repeats, or at its end, and then the rest of the body is pushed
\* and joined.
SectionsEnd ==
    /\ aPc = "sections" /\ (aStop \/ aI = aOutline)
    /\ IF aStop
       THEN aPc' = "stopped" /\ UNCHANGED aParts
       ELSE /\ aParts' = aParts \o <<Part("faq", 0), Part("conclusion", 0),
                                     Part("references", 0)>>
            /\ aPc' = "joined"
    /\ UNCHANGED <<aOutline, aImages, aVideos, aStop, aI>>

AssembleNext ==
    \/ BeginParts /\ UNCHANGED notAssemble
    \/ SectionWritten /\ UNCHANGED notAssemble
    \/ SectionFails /\ UNCHANGED notAssemble
    \/ StopDuringSections /\ UNCHANGED notAssemble
    \/ SectionsEnd /\ UNCHANGED notAssemble

\* The indexes of contentParts that hold the part.
Places(part) == {i \in 1..Len(aParts) : aParts[i] = part}
\* The part stands once, directly after the section of the number.
OnceAfterSection(part, number) ==
    /\ Cardinality(Places(part)) = 1
    /\ \A i \in Places(part) : i > 1 /\ aParts[i - 1] = Part("section", number)

MaxModels == 4

\* A model name is the place it has in the list.
ModelLists == {[i \in 1..n |-> i] : n \in 0..MaxModels}

\* How a call of callAiWithRetry for a model ends: with content, with an
\* empty content, or rejected after the gateway's own retries.
CallOutcomes == {"content", "empty", "rejects"}

\* The errors callAI can reject with: the one caught for a model, and the
\* one of the check after the switch.
NoThrow == [kind |-> "none", model |-> 0]
ModelError(model) == [kind |-> "model", model |-> model]
EmptyStageError == [kind |-> "AI returned an empty response", model |-> 0]

\* The try block of a round ends in its catch block.
ModelFailedOnReject(outcome) == outcome = "rejects"
ModelFailed(outcome) == outcome \in {"empty", "rejects"}

FallbackInit ==
    /\ oModels \in ModelLists
    /\ oFormat \in {"json", "html"}
    /\ oPc = "start"
    /\ oCalls = <<>>
    /\ oOutcomes = <<>>
    /\ oLastError = 0
    /\ oResponseText = ""
    /\ oThrown = NoThrow

FallbackIdle ==
    /\ oModels = <<>> /\ oFormat = "json" /\ oPc = "idle" /\ oCalls = <<>>
    /\ oOutcomes = <<>> /\ oLastError = 0 /\ oResponseText = "" /\ oThrown = NoThrow

\* What follows the loop: the throw of lastError, the check of responseText,
\* the return.
AfterLoop(lastError, responseText) ==
    IF lastError # 0 /\ responseText = "" THEN [pc |-> "thrown", error |-> ModelError(lastError)]
    ELSE IF responseText = "" THEN [pc |-> "thrown", error |-> EmptyStageError]
    ELSE [pc |-> "returned", error |-> NoThrow]

\* callAI up to its first await: the call for the first model, or the end of
\* the loop over an empty list.
CallAiStarts ==
    /\ oPc = "start"
    /\ IF oModels = <<>>
       THEN /\ oPc' = AfterLoop(0, "").pc
            /\ oThrown' = AfterLoop(0, "").error
            /\ UNCHANGED oCalls
       ELSE /\ oCalls' = <<[model |-> oModels[1], format |-> oFormat]>>
            /\ oPc' = "awaiting"
            /\ UNCHANGED oThrown
    /\ UNCHANGED <<oModels, oFormat, oOutcomes, oLastError, oResponseText>>

\* The call for the current model ends: success breaks the loop, a failure
\* is caught and the next round calls the next model, if there is one.
ModelAnswers(outcome) ==
    /\ oPc = "awaiting"
    /\ oOutcomes' = Append(oOutcomes, outcome)
    /\ LET round == Len(oCalls)
       IN  IF ModelFailed(outcome)
           THEN /\ oLastError' = oModels[round]
                /\ UNCHANGED oResponseText
                /\ IF round < Len(oModels)
                   THEN /\ oCalls' = Append(oCalls, [model |-> oModels[round + 1],
                                                     format |-> oFormat])
                        /\ UNCHANGED <<oPc, oThrown>>
                   ELSE /\ oPc' = AfterLoop(oModels[round], oResponseText).pc
                        /\ oThrown' = AfterLoop(oModels[round], oResponseText).error
                        /\ UNCHANGED oCalls
           ELSE /\ oResponseText' = IF outcome = "content" THEN "content" ELSE ""
                /\ oLastError' = 0
                /\ oPc' = AfterLoop(0, oResponseText').pc
                /\ oThrown' = AfterLoop(0, oResponseText').error
                /\ UNCHANGED oCalls
    /\ UNCHANGED <<oModels, oFormat>>

FallbackNext ==
    \/ CallAiStarts /\ UNCHANGED notFallback
    \/ (\E outcome \in CallOutcomes : ModelAnswers(outcome)) /\ UNCHANGED notFallback

\* C34: the models are called in the order of the list; a model is called
\* only after every model before it failed; after a success no model is
\* called; and callAI rejects with the error of the last model exactly when
\* every model of the list failed.
C34_ModelFallback ==
    /\ Len(oCalls) <= Len(oModels)
    /\ \A r \in 1..Len(oCalls) : oCalls[r].model = oModels[r]
    /\ Len(oOutcomes) \in {Len(oCalls), Len(oCalls) - 1}
    /\ \A r \in 1..Len(oOutcomes) :
          (r < Len(oCalls) => oOutcomes[r] # "content")
    /\ \A r \in 1..Len(oOutcomes) :
          oOutcomes[r] = "content" =>
              r = Len(oCalls) /\ oPc = "returned" /\ oResponseText = "content"
    /\ oPc = "returned" => oOutcomes # <<>> /\ oOutcomes[Len(oOutcomes)] = "content"
    /\ (oPc = "thrown" /\ oModels # <<>>) =>
          /\ Len(oOutcomes) = Len(oModels)
          /\ \A r \in 1..Len(oOutcomes) : oOutcomes[r] # "content"
          /\ oThrown = ModelError(oModels[Len(oModels)])
    /\ (Len(oOutcomes) = Len(oModels) /\ \A r \in 1..Len(oOutcomes) : oOutcomes[r] # "content")
          => oPc \in {"start", "thrown"}

C34_Witness ==
    /\ oPc = "returned" /\ Len(oCalls) = 3
    /\ oOutcomes = <<"rejects", "empty", "content">> /\ Len(oModels) = 4

(***************************************************************************)
(* generateContent calls side by side.  The row button Generate is offered *)
(* for every item that is not generating and has no content, whether or    *)
(* not a generateContent call is in flight, and Generate Selected is       *)
(* offered whenever isGenerating is false, which Stop All makes it.  This  *)
(* component follows up to MaxCalls calls at the grain of their awaits.    *)
(* The inputs of a call are fixed: no Serper key, no cached keywords, an   *)
(* outline with one section and no FAQ, no image key, and a body that      *)
(* passes the word-count gate; every provider call succeeds or fails.      *)
(***************************************************************************)

\* generateContent is called at most MaxCalls times
MaxCalls == 2

\* The provider calls a generateContent call awaits, in order.
Awaits == {"sk", "outline", "section"}

NoRun == [batch |-> <<>>, idx |-> 0, pc |-> "none", generatedCount |-> 0]

\* The item a call is working on.
RunItem(run) == IF run.pc \in Awaits THEN run.batch[run.idx] ELSE NoItem

\* The calls that have a provider call in flight for the item.
ActiveOn(id) == {r \in 1..MaxCalls : RunItem(kRuns[r]) = id}

\* for (const item of itemsToGenerate) from position j on: items whose stop
\* flag is set are passed over by continue.
RECURSIVE FirstUnstopped(_, _, _)
FirstUnstopped(batch, j, stopped) ==
    IF j > Len(batch) \/ batch[j] \notin stopped
    THEN j
    ELSE FirstUnstopped(batch, j + 1, stopped)

\* The loop from position j on, up to the first await: the next item whose
\* stop flag is not set becomes generating and its keyword call is issued;
\* after the last item the call ends.
LoopFrom(batch, j, count, stopped) ==
    LET n == FirstUnstopped(batch, j, stopped)
    IN  [batch |-> batch, idx |-> n, generatedCount |-> count,
         pc |-> IF n > Len(batch) THEN "ended" ELSE "sk"]

\* The item a run record is newly working on becomes generating.
Started(status, run) ==
    IF run.pc \in Awaits
    THEN [status EXCEPT ![run.batch[run.idx]] = "generating"]
    ELSE status

RunsInit ==
    /\ kStatus = [i \in ItemIds |-> "idle"]
    /\ kHasContent = [i \in ItemIds |-> FALSE]
    /\ kStopped = {}
    /\ kIsGenerating = FALSE
    /\ kProgress = [current |-> 0, total |-> 0]
    /\ kRuns = [r \in 1..MaxCalls |-> NoRun]
    /\ kCalls = 0
    /\ kStopReq = [r \in 1..MaxCalls |-> "none"]
    /\ kLateCall = FALSE
    /\ kLateChange = FALSE

\* The app when it is not the component under study.
RunsIdle ==
    /\ kStatus = [i \in ItemIds |-> "idle"]
    /\ kHasContent = [i \in ItemIds |-> FALSE]
    /\ kStopped = {} /\ kIsGenerating = FALSE
    /\ kProgress = [current |-> 0, total |-> 0]
    /\ kRuns = <<>> /\ kCalls = 0 /\ kStopReq = <<>>
    /\ kLateCall = FALSE /\ kLateChange = FALSE

\* The stop requests that are pending for the items in ids are deleted.
Deleted(ids) ==
    [r \in 1..MaxCalls |->
        IF kStopReq[r] = "pending" /\ RunItem(kRuns[r]) \in ids
        THEN "deleted" ELSE kStopReq[r]]

\* The stop requests of the calls that are working on the items in ids.
Requested(ids) ==
    [r \in 1..MaxCalls |->
        IF RunItem(kRuns[r]) \in ids THEN "pending" ELSE kStopReq[r]]

\* generateContent(batch) up to its first await, as call number kCalls + 1.
CallGenerateContent(batch, stopped) ==
    LET run == LoopFrom(batch, 1, 0, stopped)
    IN  /\ kCalls' = kCalls + 1
        /\ kRuns' = [kRuns EXCEPT ![kCalls + 1] = run]
        /\ kStatus' = Started(kStatus, run)
        /\ kIsGenerating' = (run.pc # "ended")

\* The row button Generate: handleGenerateSingle(item).
GenerateSingle(id) ==
    /\ kCalls < MaxCalls
    /\ kStatus[id] # "generating"
    /\ ~kHasContent[id]
    /\ kStopped' = kStopped \ {id}
    /\ kStopReq' = Deleted({id})
    /\ kProgress' = [current |-> 0, total |-> 1]
    /\ CallGenerateContent(<<id>>, kStopped \ {id})
    /\ UNCHANGED <<kHasContent, kLateCall, kLateChange>>

\* The toolbar button Generate Selected: handleGenerateSelected().
GenerateSelected(batch) ==
    /\ kCalls < MaxCalls
    /\ ~kIsGenerating
    /\ kStopped' = {}
    /\ kStopReq' = Deleted(ItemIds)
    /\ kProgress' = [current |-> 0, total |-> Len(batch)]
    /\ CallGenerateContent(batch, {})
    /\ UNCHANGED <<kHasContent, kLateCall, kLateChange>>

\* The row button Stop: handleStopGeneration(itemId).
StopGeneration(id) ==
    /\ kStatus[id] = "generating"
    /\ kStopped' = kStopped \cup {id}
    /\ kStatus' = [kStatus EXCEPT ![id] = "idle"]
    /\ kStopReq' = Requested({id})
    /\ UNCHANGED <<kHasContent, kIsGenerating, kProgress, kRuns, kCalls, kLateCall, kLateChange>>

\* The toolbar button Stop All: handleStopGeneration().
StopAll ==
    /\ kIsGenerating
    /\ LET generating == {i \in ItemIds : kStatus[i] = "generating"}
       IN  /\ kStopped' = kStopped \cup generating
           /\ kStatus' = [i \in ItemIds |-> IF i \in generating THEN "idle" ELSE kStatus[i]]
           /\ kStopReq' = Requested(generating)
    /\ kIsGenerating' = FALSE
    /\ UNCHANGED <<kHasContent, kProgress, kRuns, kCalls, kLateCall, kLateChange>>

\* The finally block of call r, and then the rest of the loop: after a
\* break the call ends, otherwise the loop goes on with the next item.
AfterItem(r, status, break) ==
    LET run == kRuns[r]
        count == run.generatedCount + 1
        next == IF break
                THEN [run EXCEPT !.pc = "ended", !.generatedCount = count]
                ELSE LoopFrom(run.batch, run.idx + 1, count, kStopped)
    IN  /\ kProgress' = [current |-> count, total |-> Len(run.batch)]
        /\ kRuns' = [kRuns EXCEPT ![r] = next]
        /\ kStatus' = Started(status, next)
        /\ kIsGenerating' = IF next.pc = "ended" THEN FALSE ELSE kIsGenerating
        /\ kStopReq' = [kStopReq EXCEPT ![r] = "none"]

\* The provider call that call r awaits returns, and the call runs up to
\* its next await or to its end.  A failure goes to the catch block.  After
\* the keyword call and after the section the stop flag is checked (break);
\* after the outline it is checked at the top of the section loop, and the
\* break out of that loop is followed by the check after it.
CallReturns(r, ok) ==
    LET run == kRuns[r]
        id == run.batch[run.idx]
        stopped == id \in kStopped
        deleted == kStopReq[r] = "deleted"
    IN  /\ run.pc \in Awaits
        /\ IF ~ok
           THEN /\ AfterItem(r, [kStatus EXCEPT ![id] = "error"], FALSE)
                /\ kLateChange' = (kLateChange \/ deleted)
                /\ UNCHANGED <<kHasContent, kLateCall>>
           ELSE IF stopped
           THEN /\ AfterItem(r, kStatus, TRUE)
                /\ UNCHANGED <<kHasContent, kLateCall, kLateChange>>
           ELSE IF run.pc = "section"
           THEN /\ AfterItem(r, [kStatus EXCEPT ![id] = "done"], FALSE)
                /\ kHasContent' = [kHasContent EXCEPT ![id] = TRUE]
                /\ kLateChange' = (kLateChange \/ deleted)
                /\ UNCHANGED kLateCall
           ELSE /\ kRuns' = [kRuns EXCEPT ![r].pc = IF run.pc = "sk" THEN "outline" ELSE "section"]
                /\ kStatus' = [kStatus EXCEPT ![id] = "generating"]
                /\ kLateCall' = (kLateCall \/ deleted)
                /\ kLateChange' = (kLateChange \/ deleted)
                /\ UNCHANGED <<kHasContent, kIsGenerating, kProgress, kStopReq>>
        /\ UNCHANGED <<kStopped, kCalls>>

RunsNext ==
    \/ \E id \in ItemIds : GenerateSingle(id) /\ UNCHANGED notRuns
    \/ \E batch \in Batches : GenerateSelected(batch) /\ UNCHANGED notRuns
    \/ \E id \in ItemIds : StopGeneration(id) /\ UNCHANGED notRuns
    \/ StopAll /\ UNCHANGED notRuns
    \/ \E r \in 1..MaxCalls, ok \in BOOLEAN : CallReturns(r, ok) /\ UNCHANGED notRuns

(* ---- claims about calls side by side ---- *)

\* C36: a stop request is never lost: a call whose current item was stopped
\* while its provider call was in flight makes no further provider call and
\* does not change the item, also when a generate handler deleted the stop
\* flag in between; and no item has two calls working on it.
C36_StopNeverLost ==
    /\ ~kLateCall
    /\ ~kLateChange
    /\ \A i \in ItemIds : Cardinality(ActiveOn(i)) <= 1

\* C39: within one generateContent call the items are taken in input order
\* one after another, and the call's progress counter is the number of its
\* items that are finished (done, error, or passed over because stopped):
\* the items before the current one while the call works on an item, and all
\* the items of the batch once the loop has run to its end.
C39_SequentialBatch ==
    \A r \in 1..MaxCalls :
        LET run == kRuns[r]
        IN  /\ run.generatedCount <= Len(run.batch)
            /\ run.pc \in Awaits => run.generatedCount = run.idx - 1
            /\ (run.pc = "ended" /\ run.idx > Len(run.batch)) =>
                   run.generatedCount = Len(run.batch)

(***************************************************************************)
(* Specifications                                                          *)
(***************************************************************************)
InitRunner ==
    /\ RunnerInit
    /\ GatewayIdle
    /\ PipelineIdle
    /\ FetchIdle
    /\ CacheIdle
    /\ WordGateIdle
    /\ LinkRepairIdle
    /\ LinkQuotaIdle
    /\ ExtractIdle
    /\ VideoIdle
    /\ PublishIdle
    /\ AssembleIdle
    /\ FallbackIdle
    /\ RunsIdle

SpecRunner == InitRunner /\ [][RunnerNext]_vars

InitGateway ==
    /\ GatewayInit
    /\ RunnerIdle
    /\ PipelineIdle
    /\ FetchIdle
    /\ CacheIdle
    /\ WordGateIdle
    /\ LinkRepairIdle
    /\ LinkQuotaIdle
    /\ ExtractIdle
    /\ VideoIdle
    /\ PublishIdle
    /\ AssembleIdle
    /\ FallbackIdle
    /\ RunsIdle

SpecGateway == InitGateway /\ [][GatewayNext]_vars

InitPipeline ==
    /\ PipelineInit
    /\ RunnerIdle
    /\ GatewayIdle
    /\ FetchIdle
    /\ CacheIdle
    /\ WordGateIdle
    /\ LinkRepairIdle
    /\ LinkQuotaIdle
    /\ ExtractIdle
    /\ VideoIdle
    /\ PublishIdle
    /\ AssembleIdle
    /\ FallbackIdle
    /\ RunsIdle

SpecPipeline == InitPipeline /\ [][PipelineNext]_vars

\* Every provider call returns, and synchronous code runs on.
SpecPipelineFair == SpecPipeline /\ WF_vars(RunStep /\ UNCHANGED notPipeline)

InitFetch ==
    /\ FetchInit
    /\ RunnerIdle
    /\ GatewayIdle
    /\ PipelineIdle
    /\ CacheIdle
    /\ WordGateIdle
    /\ LinkRepairIdle
    /\ LinkQuotaIdle
    /\ ExtractIdle
    /\ VideoIdle
    /\ PublishIdle
    /\ AssembleIdle
    /\ FallbackIdle
    /\ RunsIdle

SpecFetch == InitFetch /\ [][FetchNext]_vars

InitCache ==
    /\ CacheInit
    /\ RunnerIdle
    /\ GatewayIdle
    /\ PipelineIdle
    /\ FetchIdle
    /\ WordGateIdle
    /\ LinkRepairIdle
    /\ LinkQuotaIdle
    /\ ExtractIdle
    /\ VideoIdle
    /\ PublishIdle
    /\ AssembleIdle
    /\ FallbackIdle
    /\ RunsIdle

SpecCache == InitCache /\ [][CacheNext]_vars

InitWordGate ==
    /\ WordGateInit
    /\ RunnerIdle
    /\ GatewayIdle
    /\ PipelineIdle
    /\ FetchIdle
    /\ CacheIdle
    /\ LinkRepairIdle
    /\ LinkQuotaIdle
    /\ ExtractIdle
    /\ VideoIdle
    /\ PublishIdle
    /\ AssembleIdle
    /\ FallbackIdle
    /\ RunsIdle

SpecWordGate == InitWordGate /\ [][WordGateNext]_vars

InitLinkRepair ==
    /\ LinkRepairInit
    /\ RunnerIdle
    /\ GatewayIdle
    /\ PipelineIdle
    /\ FetchIdle
    /\ CacheIdle
    /\ WordGateIdle
    /\ LinkQuotaIdle
    /\ ExtractIdle
    /\ VideoIdle
    /\ PublishIdle
    /\ AssembleIdle
    /\ FallbackIdle
    /\ RunsIdle

SpecLinkRepair == InitLinkRepair /\ [][LinkRepairNext]_vars

InitLinkQuota ==
    /\ LinkQuotaInit
    /\ RunnerIdle
    /\ GatewayIdle
    /\ PipelineIdle
    /\ FetchIdle
    /\ CacheIdle
    /\ WordGateIdle
    /\ LinkRepairIdle
    /\ ExtractIdle
    /\ VideoIdle
    /\ PublishIdle
    /\ AssembleIdle
    /\ FallbackIdle
    /\ RunsIdle

SpecLinkQuota == InitLinkQuota /\ [][LinkQuotaNext]_vars

InitExtract ==
    /\ ExtractInit
    /\ RunnerIdle
    /\ GatewayIdle
    /\ PipelineIdle
    /\ FetchIdle
    /\ CacheIdle
    /\ WordGateIdle
    /\ LinkRepairIdle
    /\ LinkQuotaIdle
    /\ VideoIdle
    /\ PublishIdle
    /\ AssembleIdle
    /\ FallbackIdle
    /\ RunsIdle

SpecExtract == InitExtract /\ [][ExtractNext]_vars

InitVideo ==
    /\ VideoInit
    /\ RunnerIdle
    /\ GatewayIdle
    /\ PipelineIdle
    /\ FetchIdle
    /\ CacheIdle
    /\ WordGateIdle
    /\ LinkRepairIdle
    /\ LinkQuotaIdle
    /\ ExtractIdle
    /\ PublishIdle
    /\ AssembleIdle
    /\ FallbackIdle
    /\ RunsIdle

SpecVideo == InitVideo /\ [][VideoNext]_vars

InitPublish ==
    /\ PublishInit
    /\ RunnerIdle
    /\ GatewayIdle
    /\ PipelineIdle
    /\ FetchIdle
    /\ CacheIdle
    /\ WordGateIdle
    /\ LinkRepairIdle
    /\ LinkQuotaIdle
    /\ ExtractIdle
    /\ VideoIdle
    /\ AssembleIdle
    /\ FallbackIdle
    /\ RunsIdle

SpecPublish == InitPublish /\ [][PublishNext]_vars

InitAssemble ==
    /\ AssembleInit
    /\ RunnerIdle
    /\ GatewayIdle
    /\ PipelineIdle
    /\ FetchIdle
    /\ CacheIdle
    /\ WordGateIdle
    /\ LinkRepairIdle
    /\ LinkQuotaIdle
    /\ ExtractIdle
    /\ VideoIdle
    /\ PublishIdle
    /\ FallbackIdle
    /\ RunsIdle

SpecAssemble == InitAssemble /\ [][AssembleNext]_vars

InitFallback ==
    /\ FallbackInit
    /\ RunnerIdle
    /\ GatewayIdle
    /\ PipelineIdle
    /\ FetchIdle
    /\ CacheIdle
    /\ WordGateIdle
    /\ LinkRepairIdle
    /\ LinkQuotaIdle
    /\ ExtractIdle
    /\ VideoIdle
    /\ PublishIdle
    /\ AssembleIdle
    /\ RunsIdle

SpecFallback == InitFallback /\ [][FallbackNext]_vars

InitRuns ==
    /\ RunsInit
    /\ RunnerIdle
    /\ GatewayIdle
    /\ PipelineIdle
    /\ FetchIdle
    /\ CacheIdle
    /\ WordGateIdle
    /\ LinkRepairIdle
    /\ LinkQuotaIdle
    /\ ExtractIdle
    /\ VideoIdle
    /\ PublishIdle
    /\ AssembleIdle
    /\ FallbackIdle

SpecRuns == InitRuns /\ [][RunsNext]_vars

====
